---- MODULE Spec2Model ----
(***************************************************************************)
(* Model of the wassette component host: the hook pipeline of the MCP      *)
(* dispatcher (crates/mcp-server, crates/polis-middleware), the component  *)
(* storage (crates/wassette/src/component_storage.rs) and the provisioning *)
(* controller (src/provisioning_controller.rs).                            *)
(***************************************************************************)
EXTENDS Integers, Sequences, FiniteSets, TLC

(***************************************************************************)
(* Bounds                                                                  *)
(***************************************************************************)
\* longest middleware stack explored
MaxHooks == 3

\* number of storage calls explored, each one a concurrent task
MaxCalls == 2

\* largest configured max_concurrent_downloads explored
MaxDownloads == 2

\* longest provisioning manifest explored
MaxComponents == 2

\* number of registry operations explored
MaxRegistryOps == 4

\* number of client requests explored, each one a concurrent task
MaxRequests == 2

\* last second of the clock explored
MaxTime == 2

\* longest allow list of a permission class
MaxRules == 2

\* number of calls of remove_component_artifacts for one id
MaxRemovals == 2
MaxOps == 3

\* longest URI string, in bytes, of the hash checks
MaxUriLen == 2

\* Option<T> is a sequence of length at most one
None == <<>>
Some(x) == <<x>>

(***************************************************************************)
(* Hook pipeline: inputs                                                   *)
(***************************************************************************)
\* the two dispatchers that run a hook pipeline around the engine
Servers == {"mcp", "polis"}

\* reasons a hook may pass to ctx.block(reason)
Reasons == {"denied", "quota"}

\* what one before_tool_call implementation may do with the context:
\*   pass        return Ok(()) without touching the block fields
\*   block       ctx.block(reason); Ok(())
\*   flag        ctx.blocked = true (public field), no reason; Ok(())
\*   fail        return Err(e)
\*   block_fail  ctx.block(reason) and then return Err(e)
BeforeKinds == {"pass", "block", "flag", "fail", "block_fail"}

\* what one after_tool_call implementation may do with the result context
AfterKinds == {"pass", "transform", "fail", "transform_fail"}

\* error codes an ErrorData returned by a hook may carry
ErrCodes == {"internal_error", "invalid_request"}

\* outcomes of handle_tools_call followed by serde_json::from_value
EngineOutcomes == {"ok", "unparseable", "err"}

VARIABLES
    server,      \* which dispatcher serves the call
    nhooks,      \* length of the middleware stack
    hpc,         \* position of call_tool: idle, before, check, engine, after, done
    hidx,        \* number of hooks already visited in the running phase
    tool_ctx,    \* ToolCallContext: blocked / block_reason
    result_ctx,  \* ToolResultContext.result, None before the engine returned
    response,    \* what call_tool returned
    trace,       \* every hook and engine invocation of the call, in order
    audit,       \* the position of the AuditMiddleware in the chain, 0 when it has none
    entries      \* the Vec<AuditEntry> of the AuditMiddleware

hookVars == <<server, nhooks, hpc, hidx, tool_ctx, result_ctx, response, trace, audit, entries>>

VARIABLES
    disk,                      \* component directory: per id, the content of each quartet file (0 = absent)
    max_concurrent_downloads,  \* argument of ComponentStorage::new
    permits,                   \* free permits of downloads_semaphore
    call,                      \* the storage calls: operation, arguments and position
    committed,                 \* per id, the quartet as the last call that returned Ok left it
    interrupted                \* the last install interrupted while alone on its id: id, quartet left, quartet committed before

storVars == <<disk, max_concurrent_downloads, permits, call, committed, interrupted>>

VARIABLES
    manifest,    \* the validated ProvisioningManifest: its component declarations
    pidx,        \* index of the component being provisioned
    ppc,         \* position of provision / provision_component / load_component
    staged,      \* temp_<hash>.policy.yaml files in the component directory
    registered,  \* registry: per id, the component that is live
    load,        \* the running load transaction
    errors,      \* errors accumulated by provision
    last_failed, \* the component whose provisioning failed last, until the next one starts
    attempts,    \* the components provision_component was called for, in order
    failures,      \* the components whose provision_component returned Err
    prov_result,   \* what provision returned
    secrets_store, \* SecretsManager: per component id, the secrets set for it
    steps          \* every step provision_component and load_component ran: component, step, whether it failed

provVars == <<manifest, pidx, ppc, staged, registered, load, errors, last_failed,
              attempts, failures, prov_result, secrets_store, steps>>

VARIABLES
    components,  \* registry: per id, the tool names of the loaded component's schema
    tool_index,  \* registry: per tool name, the ids of the components that export it
    reg_result   \* what the last registry operation returned

regVars == <<components, tool_index, reg_result>>

VARIABLES
    peer,      \* McpServer.peer: the stored peer handle
    requests,  \* the requests of the clients: kind, peer of the request context, position
    stores,    \* the peers passed to store_peer_if_empty, in the order of the calls
    loader,    \* the background loader: artifact it works on and step
    tasks,     \* spawned notify_tool_list_changed tasks, by the component they describe
    received,  \* notifications the client received, by the component they describe
    skipped,   \* components whose notify_fn ran while no peer was stored
    quiet,     \* components that were registered while no peer was stored
    notified,  \* components for which a notification was emitted
    listed     \* the last tools/list response and what its client had received before asking

serveVars == <<peer, requests, stores, loader, tasks, received, skipped, quiet, notified, listed>>

VARIABLES
    cx_pc,         \* position of call_tool: idle, before, engine, after, done
    cx_n,          \* length of the middleware stack
    cx_idx,        \* number of hooks already visited in the running phase
    cx_params,     \* the CallToolRequestParam of the request
    cx_ctx,        \* ToolCallContext: tool_name, arguments, arguments_modified, metadata
    cx_forwarded,  \* the parameters handle_tools_call was given
    cx_result,     \* ToolResultContext.metadata, None before the after phase
    cx_mut,        \* whether a before hook called arguments_mut()
    cx_written,    \* the metadata keys the before hooks wrote
    cx_left,       \* the metadata as the last before hook left it
    cx_seen,       \* the metadata each after hook was given, in order
    cx_tool_name,  \* the local `tool_name`, then ToolResultContext.tool_name; None before the call
    cx_given       \* per after hook: the tool name it was given and what it did

cxVars == <<cx_pc, cx_n, cx_idx, cx_params, cx_ctx, cx_forwarded, cx_result,
            cx_mut, cx_written, cx_left, cx_seen, cx_tool_name, cx_given>>

\* the state of the subsystems that the hook pipeline, the component storage
\* and the provisioning controller never touch
VARIABLES
    file,       \* the stamped artifact on disk: exists, content, mtime in seconds
    clock,      \* the time in whole seconds
    stamp,      \* the ValidationStamp created last, None before
    stamped,    \* the file as it was when the stamp was created
    modified,   \* whether the file was written or deleted since the stamp was created
    validated   \* the result of the last validate_stamp, with the file it looked at

stampVars == <<file, clock, stamp, stamped, modified, validated>>

VARIABLES
    syn_pc,      \* position: start, synthesized, serialized, parsed, done, failed
    syn_inline,  \* the InlinePermissions of the component
    syn_name,    \* component_name
    syn_policy,  \* what synthesize_policy_from_inline returned
    syn_yaml,    \* what serialize_policy_to_yaml returned
    syn_parsed,  \* what serde_yaml::from_str read back, and whether it validates
    syn_again    \* what a second synthesize_policy_from_inline returned

synVars == <<syn_pc, syn_inline, syn_name, syn_policy, syn_yaml, syn_parsed, syn_again>>

VARIABLES
    mf,         \* the ProvisioningManifest read from the manifest file
    mf_result   \* what ProvisioningManifest::validate returned, None before

mfVars == <<mf, mf_result>>

VARIABLES
    rm_dir,      \* the files of one component id: 1 when the file exists
    rm_pc,       \* position of remove_component_artifacts: idle, remove
    rm_step,     \* index in RemoveOrder of the next remove_if_exists
    rm_results   \* per call that returned: its result, the directory it left, whether the file of its last step was absent

rmVars == <<rm_dir, rm_pc, rm_step, rm_results>>

VARIABLES
    lt_pc,        \* position of list_tools: idle, list, hooks, done
    lt_n,         \* length of the middleware stack
    lt_idx,       \* number of hooks already visited
    lt_snapshot,  \* the tools handle_tools_list returned
    lt_tools,     \* list_result.tools, the list the hooks are given
    lt_log,       \* per on_list_tools call: the hook, the list it was given, what it did
    lt_response   \* what list_tools returned

ltVars == <<lt_pc, lt_n, lt_idx, lt_snapshot, lt_tools, lt_log, lt_response>>

VARIABLES
    cow_params,    \* the CallToolRequestParam the context borrows its arguments from
    cow_request,   \* the arguments of the request when the context was built
    cow_ctx,       \* ToolCallContext: arguments, arguments_modified
    cow_ops,       \* the calls made on the context so far
    cow_returned   \* per call: the value behind the reference it returned

cowVars == <<cow_params, cow_request, cow_ctx, cow_ops, cow_returned>>

VARIABLES
    eq_hooks,       \* the hooks the hook-enabled server was built with
    eq_peer,        \* the peer slot of the hook-enabled server
    eq_plain_peer,  \* the peer slot of the hook-less server
    eq_log          \* per request: its kind, its peer, and what either server returned

eqVars == <<eq_hooks, eq_peer, eq_plain_peer, eq_log>>

VARIABLES
    rl_max_calls,  \* RateLimitMiddleware.max_calls
    rl_window,     \* RateLimitMiddleware.window, in seconds
    rl_clock,      \* the time in whole seconds
    rl_calls,      \* the Vec<Instant> behind the RwLock
    rl_lock,       \* the call that holds the write guard, 0 when none
    rl_task,       \* per call: its position in before_tool_call and its `now`
    rl_passed,     \* the calls that returned unblocked: their `now` and when they returned
    rl_blocked     \* the calls that were blocked: when, and how many stamps were counted

rlVars == <<rl_max_calls, rl_window, rl_clock, rl_calls, rl_lock, rl_task, rl_passed, rl_blocked>>

VARIABLES
    hs_uris,    \* the uri strings of the components of one manifest, as bytes
    hs_staged   \* per component provisioned so far: the file name its policy was staged under

hsVars == <<hs_uris, hs_staged>>

lateVars == <<cowVars, eqVars, rlVars, hsVars>>

\* the state of the subsystems added after the stamps
moreVars == <<synVars, mfVars, rmVars, ltVars, lateVars>>

earlyVars == <<hookVars, storVars, provVars, regVars, serveVars, cxVars, stampVars,
               synVars, mfVars, rmVars, ltVars>>

\* what the actions of one of the later subsystems leave unchanged
notCowVars == <<earlyVars, eqVars, rlVars, hsVars>>
notEqVars == <<earlyVars, cowVars, rlVars, hsVars>>
notRlVars == <<earlyVars, cowVars, eqVars, hsVars>>
notHsVars == <<earlyVars, cowVars, eqVars, rlVars>>

\* the state of the subsystems before them
coreVars == <<hookVars, storVars, provVars, regVars, serveVars, cxVars, stampVars>>

restVars == <<regVars, serveVars, cxVars, stampVars, moreVars>>

vars == <<hookVars, storVars, provVars, restVars>>

(***************************************************************************)
(* Hook pipeline: pure parts                                               *)
(***************************************************************************)
from_params == [blocked |-> FALSE, block_reason |-> None]

block(c, reason) == [c EXCEPT !.blocked = TRUE, !.block_reason = Some(reason)]

\* the effect of one before hook on the context
ApplyBefore(c, kind, reason) ==
    CASE kind \in {"block", "block_fail"} -> block(c, reason)
      [] kind = "flag" -> [c EXCEPT !.blocked = TRUE]
      [] OTHER -> c

BeforeFails(kind) == kind \in {"fail", "block_fail"}

AfterFails(kind) == kind \in {"fail", "transform_fail"}

\* the effect of one after hook on the result: a transforming hook appends
\* a content item of its own
ApplyAfter(r, kind, h) ==
    IF kind \in {"transform", "transform_fail"}
    THEN [r EXCEPT !.content = Append(@, <<"annotated by", h>>)]
    ELSE r

MutBlockedResult(reason) ==
    [content |-> << <<"Tool call blocked: ", reason>> >>,
     structured_content |-> None,
     is_error |-> None]
blocked_result(reason) ==
    [content |-> << <<"Tool call blocked: ", reason>> >>,
     structured_content |-> None,
     is_error |-> Some(TRUE)]

\* the results the engine may produce
ToolResults ==
    {[content |-> << <<"tool output", 0>> >>, structured_content |-> None, is_error |-> e] :
        e \in {None, Some(TRUE)}}

OkResponse(r) == [kind |-> "Ok", result |-> r]
ErrResponse(e) == [kind |-> "Err", err |-> e]

\* `middleware.before_tool_call(ctx).await?`: a failure leaves the loop
MutBeforeErrPropagates(fails) == FALSE
BeforeErrPropagates(fails) == fails

\* `if ctx.blocked { break; }` after every before hook
MutBreakOnBlocked(c) == FALSE
BreakOnBlocked(c) == c.blocked

\* the k-th hook visited by the after phase: `self.middlewares.iter().rev()`
MutAfterVisit(n, k) == k
AfterVisit(n, k) == n - k + 1

\* the error call_tool returns for a failed before phase
BeforeErrResponse(srv, e) ==
    IF srv = "mcp"
    THEN ErrResponse(e)
    ELSE ErrResponse([code |-> "internal_error", message |-> e.message])

\* the reason of the synthetic blocked result
BlockReason(srv, c) ==
    IF c.block_reason # None THEN c.block_reason[1]
    ELSE IF srv = "mcp" THEN "Blocked by hook" ELSE "Blocked by middleware"

\* `middleware.after_tool_call(ctx).await?`: a failure leaves the after loop
MutAfterErrPropagates(fails) == FALSE
AfterErrPropagates(fails) == fails

\* what call_tool returns once the after phase ended, failed or not
MutAfterPhaseResponse(r, failed, e) == IF failed THEN ErrResponse(e) ELSE OkResponse(r)
AfterPhaseResponse(r, failed, e) == OkResponse(r)

\* AuditMiddleware::before_tool_call inserts a metadata key and returns
\* Ok(()); every other middleware may do any of BeforeKinds
BeforeKindsOf(h, a) == IF h = a THEN {"pass"} ELSE BeforeKinds

\* AuditMiddleware::after_tool_call pushes an entry and returns Ok(())
AfterKindsOf(h, a) == IF h = a THEN {"pass"} ELSE AfterKinds

\* the AuditEntry that after_tool_call builds from the result context
AuditEntry(r) == [blocked |-> FALSE, is_error |-> r.is_error]

(***************************************************************************)
(* Hook pipeline: call_tool                                                *)
(***************************************************************************)
HookInit ==
    /\ server \in Servers
    /\ nhooks \in 0..MaxHooks
    /\ hpc = "idle"
    /\ hidx = 0
    /\ tool_ctx = from_params
    /\ result_ctx = None
    /\ response = [kind |-> "none"]
    /\ trace = <<>>
    /\ audit = 0
    /\ entries = <<>>

\* call_tool up to the first hook: the context is built from the request
CallToolStart ==
    /\ UNCHANGED <<storVars, provVars, restVars>>
    /\ hpc = "idle"
    /\ tool_ctx' = from_params
    /\ hidx' = 0
    /\ hpc' = IF nhooks = 0 THEN "check" ELSE "before"
    /\ UNCHANGED <<server, nhooks, result_ctx, response, trace, audit, entries>>

\* one iteration of the before loop, and the return of call_tool when the
\* hook fails
BeforeToolCall ==
    /\ UNCHANGED <<storVars, provVars, restVars>>
    /\ hpc = "before"
    /\ hidx < nhooks
    /\ \E kind \in BeforeKindsOf(hidx + 1, audit), reason \in Reasons, code \in ErrCodes :
        LET h == hidx + 1
            c == ApplyBefore(tool_ctx, kind, reason)
            e == [code |-> code, message |-> <<"hook failed", h>>]
            ev == [ev |-> "before", h |-> h, kind |-> kind,
                   reason |-> IF kind \in {"block", "block_fail"} THEN Some(reason) ELSE None,
                   err |-> IF BeforeFails(kind) THEN Some(e) ELSE None]
        IN  /\ trace' = Append(trace, ev)
            /\ tool_ctx' = c
            /\ hidx' = h
            /\ IF BeforeErrPropagates(BeforeFails(kind))
               THEN /\ hpc' = "done"
                    /\ response' = BeforeErrResponse(server, e)
               ELSE /\ hpc' = IF BreakOnBlocked(c) \/ h = nhooks THEN "check" ELSE "before"
                    /\ response' = response
    /\ UNCHANGED <<server, nhooks, result_ctx, audit, entries>>

\* `if tool_ctx.blocked`: the call stops before the engine
MutIsBlocked(c) == FALSE
IsBlocked(c) == c.blocked

\* `if tool_ctx.blocked { return Ok(blocked_result(&reason)) }`
CheckBlocked ==
    /\ UNCHANGED <<storVars, provVars, restVars>>
    /\ hpc = "check"
    /\ IF IsBlocked(tool_ctx)
       THEN /\ hpc' = "done"
            /\ response' = OkResponse(blocked_result(BlockReason(server, tool_ctx)))
       ELSE /\ hpc' = "engine"
            /\ response' = response
    /\ UNCHANGED <<server, nhooks, hidx, tool_ctx, result_ctx, trace, audit, entries>>

\* handle_tools_call and the parse of its value
HandleToolsCall ==
    /\ UNCHANGED <<storVars, provVars, restVars>>
    /\ hpc = "engine"
    /\ \E out \in EngineOutcomes, r \in ToolResults :
        /\ trace' = Append(trace, [ev |-> "engine", out |-> out,
                                    result |-> IF out = "ok" THEN Some(r) ELSE None])
        /\ CASE out = "err" ->
                  /\ hpc' = "done"
                  /\ response' = ErrResponse([code |-> "parse_error", message |-> <<"engine error", 0>>])
                  /\ result_ctx' = result_ctx
             [] out = "unparseable" ->
                  /\ hpc' = "done"
                  /\ response' = ErrResponse([code |-> "parse_error", message |-> <<"Failed to parse result", 0>>])
                  /\ result_ctx' = result_ctx
             [] OTHER ->
                  /\ result_ctx' = Some(r)
                  /\ IF nhooks = 0
                     THEN /\ hpc' = "done"
                          /\ response' = AfterPhaseResponse(r, FALSE, None)
                     ELSE /\ hpc' = "after"
                          /\ response' = response
    /\ hidx' = 0
    /\ UNCHANGED <<server, nhooks, tool_ctx, audit, entries>>

\* one iteration of the after loop, and the return of call_tool when the
\* loop ends or a hook fails
AfterToolCall ==
    /\ UNCHANGED <<storVars, provVars, restVars>>
    /\ hpc = "after"
    /\ hidx < nhooks
    /\ \E kind \in AfterKindsOf(AfterVisit(nhooks, hidx + 1), audit), code \in ErrCodes :
        LET k == hidx + 1
            h == AfterVisit(nhooks, k)
            r == ApplyAfter(result_ctx[1], kind, h)
            e == [code |-> code, message |-> <<"hook failed", h>>]
            ev == [ev |-> "after", h |-> h, kind |-> kind]
        IN  /\ trace' = Append(trace, ev)
            /\ result_ctx' = Some(r)
            /\ entries' = IF h = audit THEN Append(entries, AuditEntry(r)) ELSE entries
            /\ hidx' = k
            /\ IF AfterErrPropagates(AfterFails(kind)) \/ k = nhooks
               THEN /\ hpc' = "done"
                    /\ response' = AfterPhaseResponse(r, AfterFails(kind), e)
               ELSE /\ hpc' = "after"
                    /\ response' = response
    /\ UNCHANGED <<server, nhooks, tool_ctx, audit>>

HookNext ==
    \/ CallToolStart
    \/ BeforeToolCall
    \/ CheckBlocked
    \/ HandleToolsCall
    \/ AfterToolCall

(***************************************************************************)
(* Component storage                                                       *)
(***************************************************************************)
\* component ids: the last path segment of a reference
Ids == {1, 2}

Calls == 1..MaxCalls

\* the quartet of one component id
Files == {"wasm", "precompiled", "policy", "meta"}

EmptyQuartet == [f \in Files |-> 0]

\* remove_component_artifacts removes these files, in this order
RemoveOrder == <<"wasm", "meta", "precompiled">>

\* DownloadedResource::copy_to writes the component, then the bundled policy
CopyOrder == <<"wasm", "policy">>

\* tokio::fs::remove_file, NotFound ignored
remove_if_exists(q, f) == [q EXCEPT ![f] = 0]

\* whether remove_if_exists may return Ok (TRUE) or Err (FALSE): Ok(()) and
\* NotFound give Ok, so only the removal of an existing file can fail
MutRemoveOutcomes(q, f) == BOOLEAN
RemoveOutcomes(q, f) == IF q[f] = 0 THEN {TRUE} ELSE BOOLEAN

\* a file written with the content of call `tag`
WriteFile(q, f, tag) == [q EXCEPT ![f] = tag]

\* Semaphore::new(max_concurrent_downloads.max(1))
MutSemaphorePermits(n) == n + 1
SemaphorePermits(n) == IF n > 1 THEN n ELSE 1

IdleCall == [pc |-> "idle", op |-> "none", id |-> 0, bundled |-> FALSE, step |-> 0, solo |-> TRUE]

\* a call that returned an error or was interrupted
Aborted(k) == [k EXCEPT !.pc = "aborted", !.bundled = FALSE, !.step = 0, !.solo = TRUE]

\* positions at which an install holds its download permit
HoldsPermit(c) == call[c].op = "install" /\ call[c].pc \in {"remove", "copy"}

\* positions at which a call, or its caller, is between two steps
Running(c) == call[c].pc \in {"acquire", "remove", "copy", "installed", "compiled"}

MutReleasedBy(c) == 0

\* the permit is dropped when install_component_artifact returns
ReleasedBy(c) == IF HoldsPermit(c) THEN 1 ELSE 0

\* a call for `id` begins: it is alone on the id unless another call for the
\* id is running, and then that one is not alone either
Begin(c, k) ==
    LET others == {d \in Calls \ {c} : Running(d) /\ call[d].id = k.id}
    IN [d \in Calls |->
           IF d = c THEN [k EXCEPT !.solo = (others = {})]
           ELSE IF d \in others THEN [call[d] EXCEPT !.solo = FALSE]
           ELSE call[d]]

\* what an interrupted install leaves behind, kept when it ran alone on its id
LeftBehind(c) ==
    IF call[c].op = "install" /\ call[c].pc \in {"remove", "copy"} /\ call[c].solo
    THEN Some(<<call[c].id, disk[call[c].id], committed[call[c].id]>>)
    ELSE interrupted

StorInit ==
    /\ disk = [i \in Ids |-> EmptyQuartet]
    /\ max_concurrent_downloads \in 0..MaxDownloads
    /\ permits = SemaphorePermits(max_concurrent_downloads)
    /\ call = [c \in Calls |-> IdleCall]
    /\ committed = [i \in Ids |-> EmptyQuartet]
    /\ interrupted = None

\* a task calls install_component_artifact(id, resource)
BeginInstall(c) ==
    /\ call[c].pc = "idle"
    /\ c > 1 => call[c - 1].pc # "idle"
    /\ \E id \in Ids, bundled \in BOOLEAN :
        call' = Begin(c, [pc |-> "acquire", op |-> "install", id |-> id,
                          bundled |-> bundled, step |-> 0, solo |-> TRUE])
    /\ UNCHANGED <<disk, max_concurrent_downloads, permits, committed, interrupted>>
    /\ UNCHANGED <<hookVars, provVars, restVars>>

\* a task calls remove_component_artifacts(id)
BeginRemove(c) ==
    /\ call[c].pc = "idle"
    /\ c > 1 => call[c - 1].pc # "idle"
    /\ \E id \in Ids :
        call' = Begin(c, [pc |-> "remove", op |-> "remove", id |-> id,
                          bundled |-> FALSE, step |-> 1, solo |-> TRUE])
    /\ UNCHANGED <<disk, max_concurrent_downloads, permits, committed, interrupted>>
    /\ UNCHANGED <<hookVars, provVars, restVars>>

\* `let _permit = self.acquire_download_permit().await`
acquire_download_permit(c) ==
    /\ call[c].pc = "acquire"
    /\ permits > 0
    /\ permits' = permits - 1
    /\ call' = [call EXCEPT ![c].pc = "remove", ![c].step = 1]
    /\ UNCHANGED <<disk, max_concurrent_downloads, committed, interrupted>>
    /\ UNCHANGED <<hookVars, provVars, restVars>>

\* one remove_if_exists(..).await? of remove_component_artifacts, called by
\* itself or as the first part of install_component_artifact
remove_component_artifacts(c) ==
    /\ call[c].pc = "remove"
    /\ LET id == call[c].id
           f == RemoveOrder[call[c].step]
           last == call[c].step = Len(RemoveOrder)
           returns == last /\ call[c].op = "remove"
       IN \E ok \in RemoveOutcomes(disk[id], f) :
           IF ok
           THEN /\ disk' = [disk EXCEPT ![id] = remove_if_exists(@, f)]
                /\ call' = [call EXCEPT
                       ![c].pc = IF ~last THEN "remove"
                                 ELSE IF call[c].op = "install" THEN "copy" ELSE "done",
                       ![c].step = IF last THEN 1 ELSE @ + 1,
                       ![c].solo = IF returns THEN TRUE ELSE @]
                /\ committed' = IF returns THEN [committed EXCEPT ![id] = disk'[id]] ELSE committed
                /\ UNCHANGED <<permits, interrupted>>
           ELSE /\ disk' = disk
                /\ call' = [call EXCEPT ![c] = Aborted(@)]
                /\ permits' = permits + ReleasedBy(c)
                /\ interrupted' = LeftBehind(c)
                /\ UNCHANGED committed
    /\ UNCHANGED max_concurrent_downloads
    /\ UNCHANGED <<hookVars, provVars, restVars>>

\* one write of `resource.copy_to(self.root()).await`, and the return of
\* install_component_artifact after the last one
copy_to(c) ==
    /\ call[c].pc = "copy"
    /\ LET id == call[c].id
           f == CopyOrder[call[c].step]
           last == call[c].step = Len(CopyOrder) \/ ~call[c].bundled
       IN \E ok \in BOOLEAN :
           IF ok
           THEN /\ disk' = [disk EXCEPT ![id] = WriteFile(@, f, c)]
                /\ call' = [call EXCEPT
                       ![c].pc = IF last THEN "installed" ELSE "copy",
                       ![c].step = IF last THEN 0 ELSE @ + 1]
                /\ permits' = IF last THEN permits + ReleasedBy(c) ELSE permits
                /\ committed' = IF last THEN [committed EXCEPT ![id] = disk'[id]] ELSE committed
                /\ UNCHANGED interrupted
           ELSE /\ disk' = disk
                /\ call' = [call EXCEPT ![c] = Aborted(@)]
                /\ permits' = permits + ReleasedBy(c)
                /\ interrupted' = LeftBehind(c)
                /\ UNCHANGED committed
    /\ UNCHANGED max_concurrent_downloads
    /\ UNCHANGED <<hookVars, provVars, restVars>>

\* the caller of a successful install compiled the component
write_precompiled(c) ==
    /\ call[c].pc = "installed"
    /\ \E ok \in BOOLEAN :
        IF ok
        THEN /\ disk' = [disk EXCEPT ![call[c].id] = WriteFile(@, "precompiled", c)]
             /\ call' = [call EXCEPT ![c].pc = "compiled"]
             /\ committed' = [committed EXCEPT ![call[c].id] = disk'[call[c].id]]
        ELSE /\ disk' = disk
             /\ call' = [call EXCEPT ![c] = Aborted(@)]
             /\ UNCHANGED committed
    /\ UNCHANGED <<max_concurrent_downloads, permits, interrupted>>
    /\ UNCHANGED <<hookVars, provVars, restVars>>

\* the caller of a successful install persists the metadata
write_metadata(c) ==
    /\ call[c].pc = "compiled"
    /\ \E ok \in BOOLEAN :
        IF ok
        THEN /\ disk' = [disk EXCEPT ![call[c].id] = WriteFile(@, "meta", c)]
             /\ call' = [call EXCEPT ![c].pc = "done", ![c].solo = TRUE]
             /\ committed' = [committed EXCEPT ![call[c].id] = disk'[call[c].id]]
        ELSE /\ disk' = disk
             /\ call' = [call EXCEPT ![c] = Aborted(@)]
             /\ UNCHANGED committed
    /\ UNCHANGED <<max_concurrent_downloads, permits, interrupted>>
    /\ UNCHANGED <<hookVars, provVars, restVars>>

\* the task of a call is cancelled or the process dies between two steps;
\* a dropped future gives its permit back
Interrupt(c) ==
    /\ Running(c)
    /\ call' = [call EXCEPT ![c] = Aborted(@)]
    /\ permits' = permits + ReleasedBy(c)
    /\ interrupted' = LeftBehind(c)
    /\ UNCHANGED <<disk, max_concurrent_downloads, committed>>
    /\ UNCHANGED <<hookVars, provVars, restVars>>

StorNext ==
    \E c \in Calls :
        \/ BeginInstall(c)
        \/ BeginRemove(c)
        \/ acquire_download_permit(c)
        \/ remove_component_artifacts(c)
        \/ copy_to(c)
        \/ write_precompiled(c)
        \/ write_metadata(c)
        \/ Interrupt(c)

\* the registry's write lock of an id, held across the whole load or unload
\* of the id
MutWriteLocked(id) == FALSE
WriteLocked(id) == \E d \in Calls : Running(d) /\ call[d].id = id

\* a task calls load_component for a reference that resolves to id
load_component(c) ==
    /\ call[c].pc = "idle"
    /\ c > 1 => call[c - 1].pc # "idle"
    /\ \E id \in Ids, bundled \in BOOLEAN :
        call' = [call EXCEPT ![c] = [pc |-> "locking", op |-> "install", id |-> id,
                                     bundled |-> bundled, step |-> 0, solo |-> TRUE]]
    /\ UNCHANGED <<disk, max_concurrent_downloads, permits, committed, interrupted>>
    /\ UNCHANGED <<hookVars, provVars, restVars>>

\* a task calls unload_component(id)
unload_component(c) ==
    /\ call[c].pc = "idle"
    /\ c > 1 => call[c - 1].pc # "idle"
    /\ \E id \in Ids :
        call' = [call EXCEPT ![c] = [pc |-> "locking", op |-> "remove", id |-> id,
                                     bundled |-> FALSE, step |-> 0, solo |-> TRUE]]
    /\ UNCHANGED <<disk, max_concurrent_downloads, permits, committed, interrupted>>
    /\ UNCHANGED <<hookVars, provVars, restVars>>

\* the task gets the write lock of its id and goes on to the storage call
acquire_write_lock(c) ==
    /\ call[c].pc = "locking"
    /\ ~WriteLocked(call[c].id)
    /\ call' = Begin(c, IF call[c].op = "install"
                        THEN [call[c] EXCEPT !.pc = "acquire"]
                        ELSE [call[c] EXCEPT !.pc = "remove", !.step = 1])
    /\ UNCHANGED <<disk, max_concurrent_downloads, permits, committed, interrupted>>
    /\ UNCHANGED <<hookVars, provVars, restVars>>

LifecycleNext ==
    \E c \in Calls :
        \/ load_component(c)
        \/ unload_component(c)
        \/ acquire_write_lock(c)
        \/ acquire_download_permit(c)
        \/ remove_component_artifacts(c)
        \/ copy_to(c)
        \/ write_precompiled(c)
        \/ write_metadata(c)
        \/ Interrupt(c)

(***************************************************************************)
(* Provisioning controller                                                 *)
(***************************************************************************)
\* component URIs as byte strings; the last byte is the last path segment
Uris == {<<1, 1>>, <<2, 1>>, <<1, 2>>}

\* the component id a reference resolves to: its last path segment
ComponentIdOf(uri) == uri[Len(uri)]

\* contents a fetch may deliver
Bytes == {"b1", "b2"}

\* SHA-256 of a content, as the `sha256:<hex>` string of a manifest
Sha256(b) == <<"sha256:", b>>

\* a u64 as its 16 hexadecimal digits, most significant first: the digits
\* `{:016x}` prints
HexWidth == 16

Zero64 == [i \in 1..HexWidth |-> 0]

\* the digits 1..i of h * 31 + carry computed digit by digit from the least
\* significant one; the carry out of digit 1 is dropped
RECURSIVE MulAddDigits(_, _, _)
MulAddDigits(h, carry, i) ==
    IF i = 0 THEN <<>>
    ELSE LET v == h[i] * 31 + carry
         IN Append(MulAddDigits(h, v \div 16, i - 1), v % 16)

\* `acc.wrapping_mul(31).wrapping_add(b as u64)`
wrapping_mul_add(h, b) == MulAddDigits(h, b, HexWidth)

\* `s.bytes().fold(0u64, |acc, b| acc.wrapping_mul(31).wrapping_add(b as u64))`
RECURSIVE hash_fold(_, _)
hash_fold(s, n) == IF n = 0 THEN Zero64 ELSE wrapping_mul_add(hash_fold(s, n - 1), s[n])

\* `format!("{:016x}", hash)`
hash_string(s) == hash_fold(s, Len(s))

\* `format!("temp_{}.policy.yaml", hash_string(&component.uri))`
TempPolicyName(uri) == <<"temp_", hash_string(uri), ".policy.yaml">>

\* the process environment: std::env::var of a name, None when it is not set
ProcessEnv(name) ==
    IF name = "API_KEY" THEN Some("secret123")
    ELSE IF name = "DB_URL" THEN Some("postgres://db")
    ELSE None

\* permissions.environment of the declaration of a URI: the first reference
\* declares a key without a source hint, the second a key with one, the third
\* no environment permissions
EnvironmentOfUri(uri) ==
    IF uri = <<1, 1>> THEN Some([allow |-> <<[key |-> "API_KEY", value_from |-> None]>>])
    ELSE IF uri = <<2, 1>>
    THEN Some([allow |-> <<[key |-> "DATABASE_URL", value_from |-> Some("DB_URL")],
                           [key |-> "UNSET_KEY", value_from |-> None]>>])
    ELSE None

\* the declarations a manifest may hold
Declarations ==
    {[uri |-> u, digest |-> d, environment |-> EnvironmentOfUri(u)] :
        u \in Uris, d \in {None} \cup {Some(Sha256(b)) : b \in Bytes}}

\* the map seed_secrets builds: for each rule whose source variable
\* (value_from, or the key) is set, the key with the variable's value
SeededSecrets(component) ==
    IF component.environment = None THEN {}
    ELSE LET allow == component.environment[1].allow
             env_var_name(rule) == IF rule.value_from # None THEN rule.value_from[1] ELSE rule.key
         IN {<<allow[i].key, ProcessEnv(env_var_name(allow[i]))[1]>> :
                i \in {j \in DOMAIN allow : ProcessEnv(env_var_name(allow[j])) # None}}

\* ProvisioningManifest::validate: at least one component, no duplicate URI
ValidManifest(m) ==
    /\ Len(m) >= 1
    /\ \A i, j \in DOMAIN m : m[i].uri = m[j].uri => i = j

\* verify_digest logs a warning and returns Ok(())
verify_digest(component, expected_digest) == TRUE

NoLoad == [id |-> 0, bytes |-> "none", bundled |-> FALSE, existed |-> FALSE, before |-> EmptyQuartet]

\* the quartet after the first n steps of install_component_artifact
RECURSIVE InstallSteps(_, _, _, _)
InstallSteps(q, tag, bundled, n) ==
    IF n = 0 THEN q
    ELSE LET p == InstallSteps(q, tag, bundled, n - 1)
         IN IF n <= Len(RemoveOrder) THEN remove_if_exists(p, RemoveOrder[n])
            ELSE WriteFile(p, CopyOrder[n - Len(RemoveOrder)], tag)

\* number of steps of a whole install
InstallLen(bundled) == Len(RemoveOrder) + (IF bundled THEN 2 ELSE 1)

\* a failed load leaves no artifact of an id that did not exist before, and
\* the earlier quartet of an id that did
Rollback(l) == IF l.existed THEN l.before ELSE EmptyQuartet

ProvInit ==
    /\ manifest \in {m \in UNION {[1..n -> Declarations] : n \in 1..MaxComponents} : ValidManifest(m)}
    /\ pidx = 1
    /\ ppc = "seed"
    /\ staged = {}
    /\ registered = [i \in Ids |-> None]
    /\ load = NoLoad
    /\ errors = <<>>
    /\ last_failed = None
    /\ attempts = <<>>
    /\ failures = {}
    /\ prov_result = None
    /\ secrets_store = [i \in Ids |-> {}]
    /\ steps = <<>>
    /\ disk = [i \in Ids |-> EmptyQuartet]

Component == manifest[pidx]

\* `component.name.as_deref().unwrap_or(&component.uri)`: the declarations
\* explored carry no name
ComponentName(component) == component.uri

\* the error of `bail!("Failed to provision {} component(s):\n{}", ..)`: one
\* line per accumulated error
MutBail(errs) == [kind |-> "Err", count |-> 1, names |-> <<errs[1][1]>>]
Bail(errs) ==
    [kind |-> "Err", count |-> Len(errs), names |-> [i \in DOMAIN errs |-> errs[i][1]]]

\* provision_component returned Err: provision records it and goes on
FailComponent(step) ==
    /\ errors' = Append(errors, <<ComponentName(Component), step>>)
    /\ failures' = failures \cup {pidx}
    /\ last_failed' = Some([uri |-> Component.uri, id |-> ComponentIdOf(Component.uri),
                            step |-> step,
                            existed |-> IF step = "synthesize"
                                        THEN registered[ComponentIdOf(Component.uri)] # None
                                        ELSE load.existed])
    /\ pidx' = pidx + 1
    /\ ppc' = IF pidx = Len(manifest) THEN "report" ELSE "seed"
    /\ load' = NoLoad

\* the step at the current position has run for the current component
Logged ==
    steps' = Append(steps, [c |-> pidx, step |-> ppc, failed |-> failures' # failures])

\* step 1 of provision_component: seed_secrets builds a map and drops it,
\* the secrets manager is not called
seed_secrets ==
    /\ ppc = "seed"
    /\ LET secrets == SeededSecrets(Component)
       IN secrets_store' = secrets_store
    /\ ppc' = "synthesize"
    /\ last_failed' = None
    /\ attempts' = Append(attempts, pidx)
    /\ UNCHANGED <<manifest, pidx, staged, registered, load, errors, failures, prov_result, disk>>
    /\ UNCHANGED <<hookVars, max_concurrent_downloads, permits, call, committed, interrupted, restVars>>
    /\ Logged

MutStepReturns(ok) == FALSE

\* the ? after a step of provision_component: an Err leaves the function
StepReturns(ok) == ~ok

\* step 2: synthesize_policy writes the policy under its temporary name
synthesize_policy ==
    /\ ppc = "synthesize"
    /\ \E ok \in BOOLEAN :
        /\ staged' = IF ok THEN staged \cup {TempPolicyName(Component.uri)} ELSE staged
        /\ IF StepReturns(ok)
           THEN FailComponent("synthesize")
           ELSE /\ ppc' = "resolve"
                /\ UNCHANGED <<pidx, load, errors, last_failed, failures>>
    /\ UNCHANGED <<manifest, registered, disk>>
    /\ UNCHANGED <<attempts, prov_result, secrets_store>>
    /\ UNCHANGED <<hookVars, max_concurrent_downloads, permits, call, committed, interrupted, restVars>>
    /\ Logged

\* step 3, load_component: Resolving
LoadResolve ==
    /\ ppc = "resolve"
    /\ \E ok \in BOOLEAN :
        IF ok
        THEN LET id == ComponentIdOf(Component.uri)
             IN /\ load' = [NoLoad EXCEPT !.id = id,
                                          !.existed = registered[id] # None,
                                          !.before = disk[id]]
                /\ ppc' = "fetch"
                /\ UNCHANGED <<pidx, errors, last_failed, failures>>
        ELSE /\ FailComponent("resolve")
    /\ UNCHANGED <<manifest, staged, registered, disk>>
    /\ UNCHANGED <<attempts, prov_result, secrets_store>>
    /\ UNCHANGED <<hookVars, max_concurrent_downloads, permits, call, committed, interrupted, restVars>>
    /\ Logged

\* load_component: Fetching
LoadFetch ==
    /\ ppc = "fetch"
    /\ \E ok \in BOOLEAN, b \in Bytes, bundled \in BOOLEAN :
        IF ok
        THEN /\ load' = [load EXCEPT !.bytes = b, !.bundled = bundled]
             /\ ppc' = "install"
             /\ UNCHANGED <<pidx, errors, last_failed, failures>>
        ELSE /\ FailComponent("fetch")
    /\ UNCHANGED <<manifest, staged, registered, disk>>
    /\ UNCHANGED <<attempts, prov_result, secrets_store>>
    /\ UNCHANGED <<hookVars, max_concurrent_downloads, permits, call, committed, interrupted, restVars>>
    /\ Logged

\* load_component: Installing, by install_component_artifact; when it
\* fails after some of its steps the load rolls back
LoadInstall ==
    /\ ppc = "install"
    /\ \E n \in 0..InstallLen(load.bundled) :
        IF n = InstallLen(load.bundled)
        THEN /\ disk' = [disk EXCEPT ![load.id] = InstallSteps(@, pidx, load.bundled, n)]
             /\ ppc' = "compile"
             /\ UNCHANGED <<pidx, load, errors, last_failed, failures>>
        ELSE /\ disk' = [disk EXCEPT ![load.id] = Rollback(load)]
             /\ FailComponent("install")
    /\ UNCHANGED <<manifest, staged, registered>>
    /\ UNCHANGED <<attempts, prov_result, secrets_store>>
    /\ UNCHANGED <<hookVars, max_concurrent_downloads, permits, call, committed, interrupted, restVars>>
    /\ Logged

\* load_component: Compiling, the precompiled form is persisted
LoadCompile ==
    /\ ppc = "compile"
    /\ \E ok \in BOOLEAN :
        IF ok
        THEN /\ disk' = [disk EXCEPT ![load.id] = WriteFile(@, "precompiled", pidx)]
             /\ ppc' = "register"
             /\ UNCHANGED <<pidx, load, errors, last_failed, failures>>
        ELSE /\ disk' = [disk EXCEPT ![load.id] = Rollback(load)]
             /\ FailComponent("compile")
    /\ UNCHANGED <<manifest, staged, registered>>
    /\ UNCHANGED <<attempts, prov_result, secrets_store>>
    /\ UNCHANGED <<hookVars, max_concurrent_downloads, permits, call, committed, interrupted, restVars>>
    /\ Logged

\* load_component: Registering, the metadata is persisted and the component
\* becomes live
LoadRegister ==
    /\ ppc = "register"
    /\ \E ok \in BOOLEAN :
        IF ok
        THEN /\ disk' = [disk EXCEPT ![load.id] = WriteFile(@, "meta", pidx)]
             /\ registered' = [registered EXCEPT ![load.id] =
                    Some([uri |-> Component.uri, bytes |-> load.bytes, digest |-> Component.digest])]
             /\ ppc' = "verify"
             /\ UNCHANGED <<pidx, load, errors, last_failed, failures>>
        ELSE /\ disk' = [disk EXCEPT ![load.id] = Rollback(load)]
             /\ registered' = registered
             /\ FailComponent("register")
    /\ UNCHANGED <<manifest, staged>>
    /\ UNCHANGED <<attempts, prov_result, secrets_store>>
    /\ UNCHANGED <<hookVars, max_concurrent_downloads, permits, call, committed, interrupted, restVars>>
    /\ Logged

\* step 4: `if let Some(digest) = &component.digest { self.verify_digest(..)? }`
VerifyDigest ==
    /\ ppc = "verify"
    /\ IF Component.digest # None /\ ~verify_digest(Component, Component.digest[1])
       THEN FailComponent("digest")
       ELSE /\ pidx' = pidx + 1
            /\ ppc' = IF pidx = Len(manifest) THEN "report" ELSE "seed"
            /\ load' = NoLoad
            /\ UNCHANGED <<errors, last_failed, failures>>
    /\ UNCHANGED <<manifest, staged, registered, disk>>
    /\ UNCHANGED <<attempts, prov_result, secrets_store>>
    /\ UNCHANGED <<hookVars, max_concurrent_downloads, permits, call, committed, interrupted, restVars>>
    /\ Logged

\* provision returns: Ok when no component failed, else the batch error
Report ==
    /\ ppc = "report"
    /\ ppc' = IF errors = <<>> THEN "ok" ELSE "bail"
    /\ prov_result' = Some(IF errors = <<>> THEN [kind |-> "Ok"] ELSE Bail(errors))
    /\ UNCHANGED <<manifest, pidx, staged, registered, load, errors, last_failed, attempts, failures, secrets_store, steps, disk>>
    /\ UNCHANGED <<hookVars, max_concurrent_downloads, permits, call, committed, interrupted, restVars>>

ProvNext ==
    \/ seed_secrets
    \/ synthesize_policy
    \/ LoadResolve
    \/ LoadFetch
    \/ LoadInstall
    \/ LoadCompile
    \/ LoadRegister
    \/ VerifyDigest
    \/ Report

(***************************************************************************)
(* Provisioning controller: properties                                     *)
(***************************************************************************)
\* C7 as stated: a component that declares a digest is live in the
\* registry only if the SHA-256 of its fetched bytes equals that digest.
C7_AsStated ==
    \A id \in Ids :
        (registered[id] # None /\ registered[id][1].digest # None) =>
            Sha256(registered[id][1].bytes) = registered[id][1].digest[1]

\* C10 as stated: after a failed load of an id that did not exist before,
\* the component directory holds no quartet file of the id and no staged
\* policy file of the load.
C10_AsStated ==
    (last_failed # None /\ ~last_failed[1].existed) =>
        /\ disk[last_failed[1].id] = EmptyQuartet
        /\ TempPolicyName(last_failed[1].uri) \notin staged

\* C24 as stated: once provision_component has succeeded for a component
\* that declares an environment rule with key k whose source variable is set
\* in the process environment, the secrets store of the component maps k to
\* the variable's value.
C24_AsStated ==
    \A i \in DOMAIN manifest :
        (i \notin failures /\ (i < pidx \/ prov_result # None)) =>
            SeededSecrets(manifest[i]) \subseteq secrets_store[ComponentIdOf(manifest[i].uri)]

\* C20: provision calls provision_component for every component of the
\* manifest once, in manifest order, whether or not earlier ones failed; it
\* returns Ok exactly when none failed, and otherwise one error that
\* reports every failed component.
C20_AllAttemptedAndReported ==
    /\ \A i \in DOMAIN attempts : attempts[i] = i
    /\ prov_result # None =>
        /\ Len(attempts) = Len(manifest)
        /\ prov_result[1].kind = "Ok" <=> failures = {}
        /\ failures # {} =>
            /\ prov_result[1].count = Cardinality(failures)
            /\ {prov_result[1].names[i] : i \in DOMAIN prov_result[1].names}
                   = {ComponentName(manifest[i]) : i \in failures}

\* the first component failed, a later one was provisioned, and provision
\* returned the error
C20_Witness ==
    /\ prov_result # None
    /\ 1 \in failures
    /\ Len(manifest) >= 2 /\ Len(manifest) \notin failures
    /\ prov_result[1].kind = "Err"

\* the steps of provision_component in program order; load_component is the
\* stages resolve to register
StepOrder == <<"seed", "synthesize", "resolve", "fetch", "install", "compile", "register", "verify">>

StepRank(step) == CHOOSE k \in DOMAIN StepOrder : StepOrder[k] = step

LoadStages == {"resolve", "fetch", "install", "compile", "register"}

\* C38: for each component provision_component runs seed secrets, then
\* synthesize and stage the policy, then load; load starts only after the
\* policy of the component was staged successfully, and after a failed step
\* no later step of that component runs.
C38_StepsInOrder ==
    /\ \A j \in DOMAIN steps :
        IF steps[j].step = "seed"
        THEN j > 1 => /\ steps[j - 1].c = steps[j].c - 1
                      /\ steps[j - 1].failed \/ steps[j - 1].step = "verify"
        ELSE /\ j > 1
             /\ steps[j - 1].c = steps[j].c
             /\ ~steps[j - 1].failed
             /\ StepRank(steps[j - 1].step) = StepRank(steps[j].step) - 1
    /\ ppc \in LoadStages => TempPolicyName(Component.uri) \in staged
    /\ \A j \in DOMAIN steps :
        steps[j].step \in LoadStages =>
            \E i \in 1..(j - 1) :
                /\ steps[i].c = steps[j].c
                /\ steps[i].step = "synthesize"
                /\ ~steps[i].failed

\* one component failed at synthesize and nothing more of it ran, and another
\* went through load after its policy was staged
C38_Witness ==
    /\ \E j \in DOMAIN steps :
        /\ steps[j].step = "synthesize" /\ steps[j].failed
        /\ j < Len(steps) /\ steps[j + 1].step = "seed"
    /\ \E j \in DOMAIN steps : steps[j].step = "register" /\ ~steps[j].failed

(***************************************************************************)
(* Component storage: properties                                           *)
(***************************************************************************)
Max(a, b) == IF a >= b THEN a ELSE b

\* the whole effect of remove_component_artifacts on a quartet
RemoveAll(q) ==
    [f \in Files |-> IF \E i \in DOMAIN RemoveOrder : RemoveOrder[i] = f THEN 0 ELSE q[f]]

\* the whole effect of a call, as far as it got, on a quartet it has to itself
EffectOf(c, q) ==
    IF call[c].op = "remove" THEN RemoveAll(q)
    ELSE LET copied == [f \in Files |->
                 IF f = "wasm" \/ (f = "policy" /\ call[c].bundled) THEN c ELSE RemoveAll(q)[f]]
         IN CASE call[c].pc = "installed" -> copied
              [] call[c].pc = "compiled" -> WriteFile(copied, "precompiled", c)
              [] OTHER -> WriteFile(WriteFile(copied, "precompiled", c), "meta", c)

\* the calls that were made for an id
CallsOn(id) == {c \in Calls : call[c].pc # "idle" /\ call[c].id = id}

\* every call for the id returned Ok (its caller may still go on)
AllReturnedOk(id) ==
    \A c \in CallsOn(id) :
        \/ call[c].op = "remove" /\ call[c].pc = "done"
        \/ call[c].op = "install" /\ call[c].pc \in {"installed", "compiled", "done"}

Orders(S) ==
    {o \in [1..Cardinality(S) -> S] : \A i, j \in 1..Cardinality(S) : o[i] = o[j] => i = j}

\* the quartet after running the first k calls of order o one after the other
RECURSIVE RunSerially(_, _)
RunSerially(o, k) ==
    IF k = 0 THEN EmptyQuartet ELSE EffectOf(o[k], RunSerially(o, k - 1))

OnlyWasm(q) == q["wasm"] # 0 /\ \A f \in Files \ {"wasm"} : q[f] = 0

\* C5 as stated: in every state of the component directory, a precompiled,
\* policy or metadata file of an id exists only if the id's wasm file exists.
C5_AsStated ==
    \A id \in Ids :
        (disk[id]["precompiled"] # 0 \/ disk[id]["policy"] # 0 \/ disk[id]["meta"] # 0)
            => disk[id]["wasm"] # 0

\* C6 as stated: an interrupted install leaves for its id either exactly
\* the quartet of the previously committed install or only the wasm file
\* (or no file at all, the state before the first install).
C6_AsStated ==
    interrupted # None =>
        \/ interrupted[1][2] = interrupted[1][3]
        \/ OnlyWasm(interrupted[1][2])
        \/ interrupted[1][2] = EmptyQuartet

\* C25 as stated: after install_component_artifact(id, R) returned Ok, no
\* file of a previous install of id remains: the metadata and the
\* precompiled file are absent and the policy is present only if R bundled
\* one. Stated for an install that ran alone on its id.
C25_AsStated ==
    \A c \in Calls :
        (call[c].op = "install" /\ call[c].pc = "installed" /\ call[c].solo) =>
            /\ disk[call[c].id]["meta"] = 0
            /\ disk[call[c].id]["precompiled"] = 0
            /\ disk[call[c].id]["policy"] # 0 => call[c].bundled

\* C8: at most max(N, 1) install calls are between acquiring the download
\* permit and returning, N the configured max_concurrent_downloads.
C8_PermitBound ==
    Cardinality({c \in Calls : HoldsPermit(c)}) <= Max(max_concurrent_downloads, 1)

\* an install waits for a permit while another install holds the last one
C8_Witness ==
    \E c1, c2 \in Calls :
        /\ call[c1].pc = "acquire"
        /\ HoldsPermit(c2)
        /\ permits = 0

\* installs of one component id only: calls of install_component_artifact
\* up to their return
PermitNext ==
    \E c \in Calls :
        \/ BeginInstall(c) /\ call'[c].id = 1
        \/ acquire_download_permit(c)
        \/ remove_component_artifacts(c)
        \/ copy_to(c)
        \/ Interrupt(c)

\* every step of an install that holds the permit takes finitely long, and
\* the semaphore wakes a waiting call when a permit is available
PermitFairness ==
    \A c \in Calls :
        /\ WF_vars(acquire_download_permit(c))
        /\ WF_vars(remove_component_artifacts(c))
        /\ WF_vars(copy_to(c))

\* the permits of the semaphore are either available or held by an install
\* that has not returned
PermitsAccounted ==
    permits + Cardinality({c \in Calls : HoldsPermit(c)}) = Max(max_concurrent_downloads, 1)

\* C40: every install_component_artifact call gives its download permit
\* back when it returns, on success and on every error path, so when each
\* install takes finitely long every waiting call eventually acquires a
\* permit (or is cancelled while it waits), also when
\* max_concurrent_downloads is configured as 0.
C40_PermitReturned ==
    /\ []PermitsAccounted
    /\ \A c \in Calls : (call[c].pc = "acquire") ~> (call[c].pc # "acquire")

\* configured with 0 downloads: one install returned an error while it held
\* the only permit, and another install holds the permit now
C40_Witness ==
    /\ max_concurrent_downloads = 0
    /\ \E c1, c2 \in Calls :
        /\ call[c1].op = "install" /\ call[c1].pc = "aborted"
        /\ interrupted = None
        /\ HoldsPermit(c2)

\* when the calls made for one id have all returned, the id's quartet is
\* the one that running them one after the other, in some order, produces
SerialOutcome ==
    \A id \in Ids :
        (Cardinality(CallsOn(id)) >= 2 /\ AllReturnedOk(id)) =>
            \E o \in Orders(CallsOn(id)) : disk[id] = RunSerially(o, Cardinality(CallsOn(id)))

CallDone == hpc = "done"

\* positions of the trace where a before hook set blocked
BlockingEvents ==
    {k \in DOMAIN trace : trace[k].ev = "before" /\ trace[k].kind \in {"block", "flag", "block_fail"}}

\* positions of the trace where a before hook returned a failure
FailedBeforeEvents ==
    {k \in DOMAIN trace : trace[k].ev = "before" /\ trace[k].err # None}

\* positions of the trace where an after hook returned a failure
FailedAfterEvents ==
    {k \in DOMAIN trace : trace[k].ev = "after" /\ AfterFails(trace[k].kind)}

\* no before hook and no engine call later than position k
NothingInvokedAfter(k) ==
    \A j \in DOMAIN trace : j > k => trace[j].ev \notin {"before", "engine"}

\* the reason hook Hi left for the blocked result
ReasonLeftBy(k) ==
    IF trace[k].reason # None THEN trace[k].reason[1]
    ELSE IF server = "mcp" THEN "Blocked by hook" ELSE "Blocked by middleware"

\* the invocations of the call as <<phase, hook>> pairs
Visits ==
    [k \in DOMAIN trace |-> <<trace[k].ev, IF trace[k].ev = "engine" THEN 0 ELSE trace[k].h>>]

\* before H1..Hn, the engine, after Hn..H1
FullVisits(n) ==
    [k \in 1..(2 * n + 1) |->
        IF k <= n THEN <<"before", k>>
        ELSE IF k = n + 1 THEN <<"engine", 0>>
        ELSE <<"after", 2 * n + 2 - k>>]

NoHookBlockedOrFailed ==
    /\ BlockingEvents = {}
    /\ FailedBeforeEvents = {}
    /\ FailedAfterEvents = {}

EngineReturnedResult ==
    \E k \in DOMAIN trace : trace[k].ev = "engine" /\ trace[k].out = "ok"

\* the tool result after the first k invocations of the trace
RECURSIVE ResultAfter(_)
ResultAfter(k) ==
    IF k = 0 THEN None
    ELSE IF trace[k].ev = "engine" THEN trace[k].result
    ELSE IF trace[k].ev = "after"
         THEN Some(ApplyAfter(ResultAfter(k - 1)[1], trace[k].kind, trace[k].h))
    ELSE ResultAfter(k - 1)

\* C1 as stated: when before hook Hi sets blocked, no later before hook and
\* no engine call is invoked, and the call returns the blocked result with
\* Hi's reason.
C1_AsStated ==
    \A k \in BlockingEvents :
        /\ NothingInvokedAfter(k)
        /\ CallDone => response = OkResponse(blocked_result(ReasonLeftBy(k)))

\* C1 amended: when before hook Hi sets blocked, no later before hook and no
\* engine call is invoked; if Hi returned Ok the call returns the blocked
\* result with the reason Hi left (the default reason if it left none), and
\* if Hi returned a failure the call returns that failure.
C1_BlockShortCircuits ==
    \A k \in BlockingEvents :
        /\ NothingInvokedAfter(k)
        /\ CallDone =>
            IF trace[k].err = None
            THEN response = OkResponse(blocked_result(ReasonLeftBy(k)))
            ELSE response = BeforeErrResponse(server, trace[k].err[1])

\* a hook that is not the last one blocked with a reason and the call returned
C1_Witness ==
    /\ CallDone
    /\ \E k \in BlockingEvents :
        trace[k].kind = "block" /\ trace[k].h < nhooks /\ response.kind = "Ok"

\* C2 as stated: when no hook blocks or fails, the call invokes before on
\* H1..Hn, then the engine, then after on Hn..H1, each exactly once.
C2_AsStated ==
    (CallDone /\ NoHookBlockedOrFailed) => Visits = FullVisits(nhooks)

\* C2 amended: when no hook blocks or fails and the engine returns a result,
\* the call invokes before on H1..Hn in insertion order, then the engine,
\* then after on Hn..H1 in reverse order, each exactly once; when the engine
\* returns an error no after hook is invoked.
C2_VisitOrder ==
    (CallDone /\ NoHookBlockedOrFailed) =>
        IF EngineReturnedResult
        THEN Visits = FullVisits(nhooks)
        ELSE Visits = SubSeq(FullVisits(nhooks), 1, nhooks + 1)

\* a stack of at least two hooks ran both phases completely
C2_Witness ==
    /\ CallDone
    /\ NoHookBlockedOrFailed
    /\ nhooks >= 2
    /\ Len(trace) = 2 * nhooks + 1

\* C3: when before hook Hi returns a failure, nothing is invoked after it
\* and the call returns that failure.
C3_BeforeFailureSurfaces ==
    \A k \in FailedBeforeEvents :
        /\ k = Len(trace)
        /\ CallDone
        /\ response.kind = "Err"
        /\ response.err.message = trace[k].err[1].message
        /\ server = "mcp" => response.err = trace[k].err[1]

\* a hook that is not the last one failed
C3_Witness ==
    \E k \in FailedBeforeEvents : trace[k].h < nhooks /\ trace[k].h > 1 /\ CallDone

\* C4: when the engine returned a result and an after hook fails, the call
\* returns Ok with the tool result as the after hooks that ran left it,
\* never the hook's failure.
C4_AfterFailureDropped ==
    (CallDone /\ EngineReturnedResult /\ FailedAfterEvents # {}) =>
        /\ response.kind = "Ok"
        /\ response.result = ResultAfter(Len(trace))[1]

\* an after hook failed after another one had transformed the result
C4_Witness ==
    /\ CallDone
    /\ FailedAfterEvents # {}
    /\ \E k \in DOMAIN trace : trace[k].ev = "after" /\ trace[k].kind = "transform"

\* the call returned a result although a before hook had set blocked
ReturnedBlocked == CallDone /\ tool_ctx.blocked /\ response.kind = "Ok"

\* C27: a blocked tool call with reason r returns exactly one text content
\* item "Tool call blocked: " followed by r, is_error = true and no
\* structured content; when a hook of McpServer set blocked without a
\* reason, r is "Blocked by hook".
C27_BlockedResultShape ==
    ReturnedBlocked =>
        /\ Len(response.result.content) = 1
        /\ response.result.content[1][1] = "Tool call blocked: "
        /\ response.result.is_error = Some(TRUE)
        /\ response.result.structured_content = None
        /\ tool_ctx.block_reason # None =>
               response.result.content[1][2] = tool_ctx.block_reason[1]
        /\ (tool_ctx.block_reason = None /\ server = "mcp") =>
               response.result.content[1][2] = "Blocked by hook"

\* a hook of McpServer set blocked without a reason and the call returned
C27_Witness ==
    /\ ReturnedBlocked
    /\ server = "mcp"
    /\ tool_ctx.block_reason = None
    /\ \E k \in BlockingEvents : trace[k].kind = "flag"

\* positions of the trace where an after hook was invoked
AfterEvents == {k \in DOMAIN trace : trace[k].ev = "after"}

\* C30: after_tool_call hooks are invoked only for a call that was not
\* blocked, whose before phase did not fail and whose engine call returned
\* a result; for a blocked call, a before-hook failure or an engine error
\* no after hook of any middleware is invoked.
C30_AfterOnlyAfterResult ==
    /\ \A k \in AfterEvents :
        /\ BlockingEvents = {}
        /\ ~tool_ctx.blocked
        /\ FailedBeforeEvents = {}
        /\ \E j \in 1..(k - 1) : trace[j].ev = "engine" /\ trace[j].out = "ok"
    /\ (CallDone /\ (BlockingEvents # {} \/ FailedBeforeEvents # {} \/ ~EngineReturnedResult)) =>
        AfterEvents = {}

\* with at least one hook installed, the engine was reached and returned an
\* error, and the call ended without any after hook
C30_Witness ==
    /\ CallDone
    /\ nhooks >= 1
    /\ \E k \in DOMAIN trace : trace[k].ev = "engine" /\ trace[k].out = "err"
    /\ AfterEvents = {}

\* C37 as stated: AuditMiddleware records one audit entry for every tool
\* call made through the chain, including calls that a middleware blocked
\* and calls whose execution or a later-run after hook failed.
C37_AsStated ==
    (CallDone /\ audit # 0) => Len(entries) = 1

\* C31: when after hook Hi returns a failure, the after hooks H(i-1)..H1
\* are not invoked for that call, and the result returned to the client
\* carries the changes made by Hn..H(i+1) before the failure.
C31_AfterFailureStopsUnwinding ==
    \A k \in FailedAfterEvents :
        /\ k = Len(trace)
        /\ \A j \in AfterEvents : trace[j].h >= trace[k].h
        /\ CallDone
        /\ response.kind = "Ok"
        /\ \A j \in AfterEvents :
              (j < k /\ trace[j].kind = "transform") =>
                  \E m \in DOMAIN response.result.content :
                      response.result.content[m] = <<"annotated by", trace[j].h>>

\* an after hook that is not H1 failed after a later-inserted hook had
\* changed the result
C31_Witness ==
    \E k \in FailedAfterEvents :
        /\ trace[k].h > 1
        /\ \E j \in AfterEvents : j < k /\ trace[j].kind = "transform"

\* the state of a subsystem that a specification does not exercise
(***************************************************************************)
(* Component registry                                                      *)
(***************************************************************************)
\* tool names a component schema may declare
ToolNames == {"fetch", "time"}

\* the schemas a component may have: at least one tool
Schemas == SUBSET ToolNames \ {{}}

\* the ids registered in a registry
RegisteredIds(comps) == {id \in Ids : comps[id] # None}

\* the tool index once id exports exactly `tools`
IndexWith(idx, id, tools) ==
    [t \in ToolNames |-> IF t \in tools THEN idx[t] \cup {id} ELSE idx[t] \ {id}]

\* component_for_tool(name): the exact id, or Ambiguous(name, ids) when more
\* than one component exports the name
MutAmbiguous(name, ids) == [kind |-> "Ok", id |-> CHOOSE i \in ids : TRUE]
Ambiguous(name, ids) == [kind |-> "Ambiguous", name |-> name, candidates |-> ids]

ToolLookup(idx, name) ==
    IF idx[name] = {} THEN [kind |-> "ToolNotFound", name |-> name]
    ELSE IF Cardinality(idx[name]) = 1 THEN [kind |-> "Ok", id |-> CHOOSE i \in idx[name] : TRUE]
    ELSE Ambiguous(name, idx[name])

\* the entries of id that unload drops from the tool index
MutDroppedBy(id) == {}
DroppedBy(id) == {id}

RegInit ==
    /\ components = [i \in Ids |-> None]
    /\ tool_index = [t \in ToolNames |-> {}]
    /\ reg_result = [op |-> "none", n |-> 0]

\* load(reference): the component is registered under its id; a component
\* already registered under the id is replaced
RegistryLoad ==
    /\ reg_result.n < MaxRegistryOps
    /\ \E id \in Ids, tools \in Schemas :
        /\ components' = [components EXCEPT ![id] = Some(tools)]
        /\ tool_index' = IndexWith(tool_index, id, tools)
        /\ reg_result' = [op |-> "load", n |-> reg_result.n + 1, kind |-> "Ok", id |-> id,
                          replaced |-> components[id] # None]
    /\ UNCHANGED <<hookVars, storVars, provVars, moreVars, serveVars, cxVars, stampVars>>

\* unload(id): removes the component from the registry; NotFound if absent
RegistryUnload ==
    /\ reg_result.n < MaxRegistryOps
    /\ \E id \in Ids :
        IF components[id] = None
        THEN /\ reg_result' = [op |-> "unload", n |-> reg_result.n + 1, kind |-> "NotFound", id |-> id]
             /\ UNCHANGED <<components, tool_index>>
        ELSE /\ components' = [components EXCEPT ![id] = None]
             /\ tool_index' = [t \in ToolNames |-> tool_index[t] \ DroppedBy(id)]
             /\ reg_result' = [op |-> "unload", n |-> reg_result.n + 1, kind |-> "Ok", id |-> id]
    /\ UNCHANGED <<hookVars, storVars, provVars, moreVars, serveVars, cxVars, stampVars>>

\* component_for_tool(name), with the exporters of the name as the schemas
\* of the registered components give them
component_for_tool ==
    /\ reg_result.n < MaxRegistryOps
    /\ \E name \in ToolNames :
        reg_result' = [op |-> "component_for_tool", n |-> reg_result.n + 1, name |-> name,
                       returned |-> ToolLookup(tool_index, name),
                       exporters |-> {id \in Ids : components[id] # None /\ name \in components[id][1]}]
    /\ UNCHANGED <<components, tool_index>>
    /\ UNCHANGED <<hookVars, storVars, provVars, moreVars, serveVars, cxVars, stampVars>>

RegistryNext ==
    \/ RegistryLoad
    \/ RegistryUnload
    \/ component_for_tool

(***************************************************************************)
(* Component registry: properties                                          *)
(***************************************************************************)
\* C11: every tool name in the schema of a registered component is in the
\* tool index under the component's id, and every entry of the tool index
\* points to a registered id.
C11_ToolIndexConsistent ==
    /\ \A id \in RegisteredIds(components) : \A t \in components[id][1] : id \in tool_index[t]
    /\ \A t \in ToolNames : tool_index[t] \subseteq RegisteredIds(components)

\* a component was unloaded while another one stays registered, and a tool
\* name has no exporter left
C11_Witness ==
    /\ reg_result.op = "unload" /\ reg_result.kind = "Ok"
    /\ RegisteredIds(components) # {}
    /\ \E t \in ToolNames : tool_index[t] = {}

\* C12: component_for_tool(name) returns an ambiguity error naming every
\* exporting component when more than one registered component exports the
\* name, and the exporting component's id when exactly one does.
C12_LookupResult ==
    reg_result.op = "component_for_tool" =>
        /\ Cardinality(reg_result.exporters) > 1 =>
            /\ reg_result.returned.kind = "Ambiguous"
            /\ reg_result.returned.candidates = reg_result.exporters
        /\ Cardinality(reg_result.exporters) = 1 =>
            /\ reg_result.returned.kind = "Ok"
            /\ {reg_result.returned.id} = reg_result.exporters

\* two registered components export the looked-up name
C12_Witness ==
    /\ reg_result.op = "component_for_tool"
    /\ Cardinality(reg_result.exporters) = 2
    /\ reg_result.returned.kind = "Ambiguous"

(***************************************************************************)
(* Dispatcher: peer handle, background loader and notifications            *)
(***************************************************************************)
Requests == 1..MaxRequests

\* peer handles of the request contexts
Peers == {"peerA", "peerB"}

\* the handlers that begin with store_peer_if_empty
StoringKinds == {"call_tool", "list_tools", "list_prompts", "list_resources"}

\* the requests a client sends
RequestKinds == StoringKinds \cup {"initialize"}

IdleRequest == [pc |-> "idle", kind |-> "none", peer |-> "none", seen |-> {}]

DoneRequest == [IdleRequest EXCEPT !.pc = "done"]

\* `if peer_guard.is_none() { *peer_guard = Some(peer); }`, under the mutex
MutStoredPeer(cur, p) == Some(p)
StoredPeer(cur, p) == IF cur = None THEN Some(p) ELSE cur

\* notify_fn: `if let Some(peer) = server_clone.get_peer()`
MutShouldNotify(cur) == TRUE
ShouldNotify(cur) == cur # None

\* the background loader registers a component and then calls notify_fn
MutLoaderSteps == <<"notify", "register">>
LoaderSteps == <<"register", "notify">>

\* the schema of the artifact the loader finds for an id
ArtifactSchema(id) == IF id = 1 THEN {"fetch"} ELSE ToolNames

\* the registry snapshot a tools/list returns: the tools of every component
ListedTools(comps) == {<<id, t>> \in Ids \X ToolNames : comps[id] # None /\ t \in comps[id][1]}

ServeInit ==
    /\ peer = None
    /\ requests = [r \in Requests |-> IdleRequest]
    /\ stores = <<>>
    /\ loader = [id |-> 1, step |-> 1]
    /\ tasks = {}
    /\ received = {}
    /\ skipped = {}
    /\ quiet = {}
    /\ notified = {}
    /\ listed = None

\* a client sends a request; it has received some notifications by then
Arrive(r) ==
    /\ requests[r].pc = "idle"
    /\ r > 1 => requests[r - 1].pc # "idle"
    /\ \E kind \in RequestKinds, p \in Peers :
        requests' = [requests EXCEPT ![r] =
            [pc |-> IF kind \in StoringKinds THEN "store" ELSE "handle",
             kind |-> kind, peer |-> p, seen |-> received]]
    /\ UNCHANGED <<peer, stores, loader, tasks, received, skipped, quiet, notified, listed>>
    /\ UNCHANGED <<hookVars, storVars, provVars, moreVars, regVars, cxVars, stampVars>>

\* the first statement of call_tool, list_tools, list_prompts, list_resources
store_peer_if_empty(r) ==
    /\ requests[r].pc = "store"
    /\ peer' = StoredPeer(peer, requests[r].peer)
    /\ stores' = Append(stores, requests[r].peer)
    /\ requests' = [requests EXCEPT ![r].pc = "handle"]
    /\ UNCHANGED <<loader, tasks, received, skipped, quiet, notified, listed>>
    /\ UNCHANGED <<hookVars, storVars, provVars, moreVars, regVars, cxVars, stampVars>>

\* the rest of the handler; tools/list answers with a registry snapshot
Handle(r) ==
    /\ requests[r].pc = "handle"
    /\ listed' = IF requests[r].kind = "list_tools"
                 THEN Some([tools |-> ListedTools(components), seen |-> requests[r].seen])
                 ELSE listed
    /\ requests' = [requests EXCEPT ![r] = DoneRequest]
    /\ UNCHANGED <<peer, stores, loader, tasks, received, skipped, quiet, notified>>
    /\ UNCHANGED <<hookVars, storVars, provVars, moreVars, regVars, cxVars, stampVars>>

\* the loader is done with a step of its artifact
LoaderAdvance ==
    IF loader.step < Len(LoaderSteps)
    THEN [loader EXCEPT !.step = @ + 1]
    ELSE [id |-> loader.id + 1, step |-> 1]

\* the background loader registers the artifact it works on
LoaderRegister ==
    /\ loader.id \in Ids
    /\ LoaderSteps[loader.step] = "register"
    /\ components' = [components EXCEPT ![loader.id] = Some(ArtifactSchema(loader.id))]
    /\ tool_index' = IndexWith(tool_index, loader.id, ArtifactSchema(loader.id))
    /\ quiet' = IF peer = None THEN quiet \cup {loader.id} ELSE quiet
    /\ loader' = LoaderAdvance
    /\ UNCHANGED <<peer, requests, stores, tasks, received, skipped, notified, listed, reg_result>>
    /\ UNCHANGED <<hookVars, storVars, provVars, moreVars, cxVars, stampVars>>

\* the background loader calls notify_fn for the artifact it works on
LoaderNotify ==
    /\ loader.id \in Ids
    /\ LoaderSteps[loader.step] = "notify"
    /\ IF ShouldNotify(peer)
       THEN /\ tasks' = tasks \cup {loader.id}
            /\ notified' = notified \cup {loader.id}
       ELSE UNCHANGED <<tasks, notified>>
    /\ skipped' = IF peer = None THEN skipped \cup {loader.id} ELSE skipped
    /\ loader' = LoaderAdvance
    /\ UNCHANGED <<peer, requests, stores, received, quiet, listed>>
    /\ UNCHANGED <<hookVars, storVars, provVars, moreVars, regVars, cxVars, stampVars>>

\* a spawned task ends: `peer_clone.notify_tool_list_changed().await`
\* delivers the notification, or fails and logs a warning
NotifyTask ==
    /\ \E id \in tasks, ok \in BOOLEAN :
        /\ tasks' = tasks \ {id}
        /\ received' = IF ok THEN received \cup {id} ELSE received
    /\ UNCHANGED <<peer, requests, stores, loader, skipped, quiet, notified, listed>>
    /\ UNCHANGED <<hookVars, storVars, provVars, moreVars, regVars, cxVars, stampVars>>

ServeNext ==
    \/ \E r \in Requests : Arrive(r) \/ store_peer_if_empty(r) \/ Handle(r)
    \/ LoaderRegister
    \/ LoaderNotify
    \/ NotifyTask

(***************************************************************************)
(* Dispatcher: properties                                                  *)
(***************************************************************************)
\* C13: a tools/list processed after its client received a list_changed
\* notification includes the tools of the component the notification
\* describes.
C13_NotifiedIsListed ==
    listed # None =>
        \A id \in listed[1].seen :
            /\ \E t \in ToolNames : <<id, t>> \in listed[1].tools
            /\ components[id] # None =>
                \A t \in components[id][1] : <<id, t>> \in listed[1].tools

\* a client asked for the tools after it had received a notification
C13_Witness ==
    /\ listed # None
    /\ listed[1].seen # {}
    /\ listed[1].tools # {}

\* C14: the stored peer handle is empty until the first call_tool,
\* list_tools, list_prompts or list_resources request, is the peer of that
\* request from then on, and no later request replaces it.
C14_FirstPeerKept ==
    peer = IF stores = <<>> THEN None ELSE Some(stores[1])

\* two requests with different peers have called store_peer_if_empty
C14_Witness ==
    /\ Len(stores) >= 2
    /\ stores[1] # stores[2]
    /\ peer = Some(stores[1])

\* C15 as stated: a component registered while no peer handle is stored
\* causes no notification, then or later.
C15_AsStated == quiet \cap notified = {}

\* C15: a component whose notify_fn runs while no peer handle is stored
\* causes no notification, neither then nor after a peer is stored.
C15_SkippedStaysSilent == skipped \cap (notified \cup tasks \cup received) = {}

\* a component was skipped, a peer was stored later, and the loader is done
C15_Witness ==
    /\ skipped # {}
    /\ peer # None
    /\ loader.id \notin Ids
    /\ \E r \in Requests : requests[r].pc = "done"

(***************************************************************************)
(* Hook pipeline: arguments and metadata of the context                    *)
(***************************************************************************)
\* metadata keys the hooks use
MetaKeys == {"user", "span"}

\* a HashMap<String, Value>: a key is absent or holds the number of the hook
\* that wrote it last
NoMeta == [k \in MetaKeys |-> 0]

\* what one before hook may do with the context besides reading it:
\*   none      nothing
\*   touch     arguments_mut(), leaving the value as it is
\*   write     *arguments_mut() = Some(other map)
\*   clear     *arguments_mut() = None
\*   rename    tool_name = another name (public field)
\*   user/span metadata.insert(key, value)
ContextOps == {"none", "touch", "write", "clear", "rename"} \cup MetaKeys

\* what one after hook may do with the result context besides reading it:
\* write a metadata key, or overwrite tool_name (public field)
ResultOps == {"none", "rename"} \cup MetaKeys

\* the requests: a tool name and optional arguments, not yet copied
RequestParams ==
    {[name |-> "tool", arguments |-> a, copied |-> FALSE] : a \in {None, Some("request map")}}

\* ToolCallContext::from_params
cx_from_params(params) ==
    [tool_name |-> params.name,
     arguments |-> None,
     arguments_modified |-> FALSE,
     metadata |-> NoMeta]

\* ToolCallContext::arguments_mut: clones the original on the first call
MutArgumentsMut(c, params) ==
    [c EXCEPT !.arguments = params.arguments, !.arguments_modified = TRUE]
arguments_mut(c, params) ==
    IF ~c.arguments_modified
    THEN [c EXCEPT !.arguments = params.arguments, !.arguments_modified = TRUE]
    ELSE c

\* ToolCallContext::into_params
MutIntoParams(c, original_params) ==
    [name |-> c.tool_name,
     arguments |-> IF c.arguments_modified THEN c.arguments ELSE original_params.arguments,
     copied |-> TRUE]
into_params(c, original_params) ==
    IF c.arguments_modified
    THEN [name |-> original_params.name, arguments |-> c.arguments, copied |-> TRUE]
    ELSE original_params

\* `let metadata = tool_ctx.metadata;` moved into the ToolResultContext
MutMovedMetadata(c) == NoMeta
MovedMetadata(c) == c.metadata

\* `ToolResultContext { tool_name, .. }`: the name cloned from the context
\* before the before hooks ran
MutResultContextName(cloned, c) == c.tool_name
ResultContextName(cloned, c) == cloned

\* the effect of before hook h that does `op`
ApplyContextOp(c, params, op, h) ==
    CASE op = "touch" -> arguments_mut(c, params)
      [] op = "write" -> [arguments_mut(c, params) EXCEPT !.arguments = Some("hook map")]
      [] op = "clear" -> [arguments_mut(c, params) EXCEPT !.arguments = None]
      [] op = "rename" -> [c EXCEPT !.tool_name = "other tool"]
      [] op \in MetaKeys -> [c EXCEPT !.metadata[op] = h]
      [] OTHER -> c

CxInit ==
    /\ cx_pc = "idle"
    /\ cx_n \in 0..MaxHooks
    /\ cx_idx = 0
    /\ cx_params \in RequestParams
    /\ cx_ctx = cx_from_params(cx_params)
    /\ cx_forwarded = None
    /\ cx_result = None
    /\ cx_mut = FALSE
    /\ cx_written = {}
    /\ cx_left = NoMeta
    /\ cx_seen = <<>>
    /\ cx_tool_name = None
    /\ cx_given = <<>>

\* call_tool up to the first hook
CxStart ==
    /\ cx_pc = "idle"
    /\ cx_ctx' = cx_from_params(cx_params)
    /\ cx_tool_name' = Some(cx_from_params(cx_params).tool_name)
    /\ cx_pc' = IF cx_n = 0 THEN "engine" ELSE "before"
    /\ UNCHANGED <<cx_n, cx_idx, cx_params, cx_forwarded, cx_result, cx_mut, cx_written, cx_left, cx_seen, cx_given>>
    /\ UNCHANGED <<hookVars, storVars, provVars, moreVars, regVars, serveVars, stampVars>>

\* one before hook that neither blocks nor fails
CxBefore ==
    /\ cx_pc = "before"
    /\ cx_idx < cx_n
    /\ \E op \in ContextOps :
        LET h == cx_idx + 1
            c == ApplyContextOp(cx_ctx, cx_params, op, h)
        IN  /\ cx_ctx' = c
            /\ cx_idx' = h
            /\ cx_mut' = (cx_mut \/ op \in {"touch", "write", "clear"})
            /\ cx_written' = IF op \in MetaKeys THEN cx_written \cup {op} ELSE cx_written
            /\ cx_left' = c.metadata
            /\ cx_pc' = IF h = cx_n THEN "engine" ELSE "before"
    /\ UNCHANGED <<cx_n, cx_params, cx_forwarded, cx_result, cx_seen, cx_tool_name, cx_given>>
    /\ UNCHANGED <<hookVars, storVars, provVars, moreVars, regVars, serveVars, stampVars>>

\* the metadata is moved out, the parameters are rebuilt, the engine runs and
\* returns a result that parses, the result context is built
CxEngine ==
    /\ cx_pc = "engine"
    /\ cx_forwarded' = Some(into_params(cx_ctx, cx_params))
    /\ cx_result' = Some(MovedMetadata(cx_ctx))
    /\ cx_tool_name' = Some(ResultContextName(cx_tool_name[1], cx_ctx))
    /\ cx_idx' = 0
    /\ cx_pc' = IF cx_n = 0 THEN "done" ELSE "after"
    /\ UNCHANGED <<cx_n, cx_params, cx_ctx, cx_mut, cx_written, cx_left, cx_seen, cx_given>>
    /\ UNCHANGED <<hookVars, storVars, provVars, moreVars, regVars, serveVars, stampVars>>

\* one after hook that does not fail
CxAfter ==
    /\ cx_pc = "after"
    /\ cx_idx < cx_n
    /\ \E op \in ResultOps :
        LET k == cx_idx + 1
            h == AfterVisit(cx_n, k)
        IN  /\ cx_seen' = Append(cx_seen, cx_result[1])
            /\ cx_given' = Append(cx_given, [name |-> cx_tool_name[1], op |-> op])
            /\ cx_tool_name' = IF op = "rename" THEN Some("other tool") ELSE cx_tool_name
            /\ cx_result' = IF op \in MetaKeys
                            THEN Some([cx_result[1] EXCEPT ![op] = h])
                            ELSE cx_result
            /\ cx_idx' = k
            /\ cx_pc' = IF k = cx_n THEN "done" ELSE "after"
    /\ UNCHANGED <<cx_n, cx_params, cx_ctx, cx_forwarded, cx_mut, cx_written, cx_left>>
    /\ UNCHANGED <<hookVars, storVars, provVars, moreVars, regVars, serveVars, stampVars>>

ContextNext ==
    \/ CxStart
    \/ CxBefore
    \/ CxEngine
    \/ CxAfter

(***************************************************************************)
(* Hook pipeline: properties of the context                                *)
(***************************************************************************)
\* C16: if no before hook called arguments_mut(), the parameters forwarded
\* to the engine are the request's parameters: same name, same arguments,
\* not a copy.
C16_UnmodifiedForwarded ==
    (cx_forwarded # None /\ ~cx_mut) => cx_forwarded[1] = cx_params

\* the hooks renamed the tool and wrote metadata, none called
\* arguments_mut(), and the engine was called with arguments
C16_Witness ==
    /\ cx_forwarded # None
    /\ ~cx_mut
    /\ cx_ctx.tool_name # cx_params.name
    /\ cx_written # {}
    /\ cx_params.arguments # None

C33_ToolNameKept ==
    /\ cx_forwarded # None =>
        /\ cx_forwarded[1].name = cx_params.name
        /\ cx_forwarded[1].arguments =
              IF cx_ctx.arguments_modified THEN cx_ctx.arguments ELSE cx_params.arguments
    /\ (cx_pc = "after" /\ cx_idx = 0) => cx_tool_name = Some(cx_params.name)
    /\ \A i \in DOMAIN cx_given :
          (\A j \in 1..(i - 1) : cx_given[j].op # "rename") =>
              cx_given[i].name = cx_params.name

\* a before hook overwrote tool_name and another changed the arguments, the
\* engine was called and two after hooks ran
C33_Witness ==
    /\ cx_ctx.tool_name # cx_params.name
    /\ cx_forwarded # None
    /\ cx_forwarded[1].arguments # cx_params.arguments
    /\ Len(cx_given) >= 2
    /\ cx_given[2].name = cx_params.name

(***************************************************************************)
(* Validation stamps                                                       *)
(***************************************************************************)
\* contents a file may have: two of the same length and a shorter one
Contents == {"aa", "ab", "b"}

\* metadata.len()
SizeOf(content) == IF content = "b" THEN 1 ELSE 2

\* compute_file_hash: SHA-256 of the content, hex; no two contents collide
compute_file_hash(content) == <<"sha256", content>>

\* `metadata.len() != stamp.file_size`
MutSizeMatches(f, s) == TRUE
SizeMatches(f, s) == SizeOf(f.content) = s.file_size

\* `actual_hash == *expected_hash`
MutHashMatches(f, s) == TRUE
HashMatches(f, s) == compute_file_hash(f.content) = s.content_hash[1]

\* `mtime != stamp.mtime`, both in whole seconds
MutMtimeMatches(f, s) == f.mtime > s.mtime
MtimeMatches(f, s) == f.mtime = s.mtime

\* ComponentStorage::create_validation_stamp on an existing file
create_validation_stamp(f, include_hash) ==
    [file_size |-> SizeOf(f.content),
     mtime |-> f.mtime,
     content_hash |-> IF include_hash THEN Some(compute_file_hash(f.content)) ELSE None]

\* ComponentStorage::validate_stamp
validate_stamp(f, s) ==
    IF ~f.exists THEN FALSE
    ELSE IF ~SizeMatches(f, s) THEN FALSE
    ELSE IF s.content_hash # None THEN HashMatches(f, s)
    ELSE MtimeMatches(f, s)

StampInit ==
    /\ file \in [exists : {TRUE}, content : Contents, mtime : {0}]
    /\ clock = 0
    /\ stamp = None
    /\ stamped = None
    /\ modified = FALSE
    /\ validated = None

\* a second passes
Tick ==
    /\ clock < MaxTime
    /\ clock' = clock + 1
    /\ UNCHANGED <<file, stamp, stamped, modified, validated>>
    /\ UNCHANGED <<hookVars, storVars, provVars, moreVars, regVars, serveVars, cxVars>>

\* the file is written: any content, the modification time is now
WriteArtifact ==
    /\ \E c \in Contents : file' = [exists |-> TRUE, content |-> c, mtime |-> clock]
    /\ modified' = TRUE
    /\ UNCHANGED <<clock, stamp, stamped, validated>>
    /\ UNCHANGED <<hookVars, storVars, provVars, moreVars, regVars, serveVars, cxVars>>

\* the file is deleted
DeleteArtifact ==
    /\ file.exists
    /\ file' = [file EXCEPT !.exists = FALSE]
    /\ modified' = TRUE
    /\ UNCHANGED <<clock, stamp, stamped, validated>>
    /\ UNCHANGED <<hookVars, storVars, provVars, moreVars, regVars, serveVars, cxVars>>

\* create_validation_stamp(path, include_hash); Err when the file is absent
CreateStamp ==
    /\ file.exists
    /\ \E include_hash \in BOOLEAN :
        stamp' = Some(create_validation_stamp(file, include_hash))
    /\ stamped' = Some(file)
    /\ modified' = FALSE
    /\ validated' = None
    /\ UNCHANGED <<file, clock>>
    /\ UNCHANGED <<hookVars, storVars, provVars, moreVars, regVars, serveVars, cxVars>>

\* validate_stamp(path, &stamp)
ValidateStamp ==
    /\ stamp # None
    /\ validated' = Some([result |-> validate_stamp(file, stamp[1]), file |-> file])
    /\ UNCHANGED <<file, clock, stamp, stamped, modified>>
    /\ UNCHANGED <<hookVars, storVars, provVars, moreVars, regVars, serveVars, cxVars>>

StampNext ==
    \/ Tick
    \/ WriteArtifact
    \/ DeleteArtifact
    \/ CreateStamp
    \/ ValidateStamp

(***************************************************************************)
(* Validation stamps: properties                                           *)
(***************************************************************************)
\* the validated file was deleted or its content is not the stamped one
ContentChanged ==
    \/ ~validated[1].file.exists
    \/ validated[1].file.content # stamped[1].content

\* the change shows in the file's existence, size or modification second
MetadataChanged ==
    \/ ~validated[1].file.exists
    \/ SizeOf(validated[1].file.content) # SizeOf(stamped[1].content)
    \/ validated[1].file.mtime # stamped[1].mtime

\* C18 as stated: after any change of the file's content, or its deletion,
\* validate_stamp returns false, with and without a content hash.
C18_AsStated ==
    (validated # None /\ ContentChanged) => ~validated[1].result

\* C18: after a change of the file's content, or its deletion,
\* validate_stamp returns false when the stamp has a content hash; without
\* a content hash it returns false when the file is gone or its size or its
\* modification second differs.
C18_ChangeInvalidates ==
    (validated # None /\ ContentChanged) =>
        ((stamp[1].content_hash # None \/ MetadataChanged) => ~validated[1].result)

\* another content of the same size was written and a stamp with a content
\* hash was found invalid
C18_Witness ==
    /\ validated # None
    /\ stamp[1].content_hash # None
    /\ validated[1].file.exists
    /\ validated[1].file.content # stamped[1].content
    /\ SizeOf(validated[1].file.content) = SizeOf(stamped[1].content)
    /\ ~validated[1].result

\* C19: validate_stamp(p, create_validation_stamp(p, include_hash)) is true
\* for both values of include_hash as long as p was not modified since.
C19_FreshStampValid ==
    (validated # None /\ ~modified) => validated[1].result

\* a stamp without a content hash was validated seconds later, the file
\* untouched
C19_Witness ==
    /\ validated # None
    /\ ~modified
    /\ stamp[1].content_hash = None
    /\ clock > stamped[1].mtime
    /\ validated[1].result

\* C29 as stated: validate_stamp returns false whenever the file's current
\* size or its current mtime differs from the stamp, also when the stamp
\* carries a content hash and the recomputed hash still matches.
C29_AsStated ==
    (/\ validated # None
     /\ validated[1].file.exists
     /\ \/ SizeOf(validated[1].file.content) # stamp[1].file_size
        \/ validated[1].file.mtime # stamp[1].mtime)
        => ~validated[1].result

\* C29: validate_stamp returns false whenever the file's current size
\* differs from the stamp; without a content hash it returns false whenever
\* the current mtime differs; with a content hash the mtime is not compared
\* and, the size being equal, the result is whether the hashes are equal.
C29_SizeThenHashOrMtime ==
    (validated # None /\ validated[1].file.exists) =>
        /\ SizeOf(validated[1].file.content) # stamp[1].file_size => ~validated[1].result
        /\ (stamp[1].content_hash = None /\ validated[1].file.mtime # stamp[1].mtime)
              => ~validated[1].result
        /\ (stamp[1].content_hash # None /\ SizeOf(validated[1].file.content) = stamp[1].file_size)
              => (validated[1].result
                    <=> compute_file_hash(validated[1].file.content) = stamp[1].content_hash[1])

\* the stamped content was written again a second later and a stamp with a
\* content hash was found valid
C29_Witness ==
    /\ validated # None
    /\ validated[1].file.exists
    /\ stamp[1].content_hash # None
    /\ validated[1].file.mtime > stamp[1].mtime
    /\ validated[1].file.content = stamped[1].content
    /\ validated[1].result

(***************************************************************************)
(* Policy synthesis: synthesize_policy_from_inline and its YAML form       *)
(***************************************************************************)
\* strings are sequences of characters
StartsWith(s, prefix) == Len(s) >= Len(prefix) /\ SubSeq(s, 1, Len(prefix)) = prefix

\* every sequence over S of length at most n
SeqsUpTo(S, n) == UNION {[1..k -> S] : k \in 0..n}

FsScheme == <<"f", "s", ":", "/", "/">>

\* hosts of network rules: a plain host and a wildcard
Hosts == {<<"a", ".", "i", "o">>, <<"*", ".", "g", ".", "c">>}

\* URIs of storage rules: one with the fs:// scheme, one without
StorageUris == {FsScheme \o <<"/", "t">>, <<"/", "t">>}

\* keys of environment rules
EnvKeys == {<<"K", "1">>, <<"K", "2">>}

\* component names
ComponentNames == {None, Some(<<"q", "r">>)}

NetworkRules == [host : Hosts]

StorageRules ==
    {[uri |-> u, access |-> a] :
        u \in StorageUris, a \in {<<"Read">>, <<"Read", "Write">>}}
    \ {[uri |-> <<"/", "t">>, access |-> <<"Read", "Write">>]}

\* the second key is declared with a source hint
EnvironmentRules ==
    {[key |-> <<"K", "1">>, value_from |-> None],
     [key |-> <<"K", "2">>, value_from |-> Some(<<"V", "2">>)]}

ResourceLimits == {[memory_bytes |-> Some(64), cpu_time_ms |-> None]}

\* an Option of an `allow` list
AllowOf(Rules) == {None} \cup {Some([allow |-> l]) : l \in SeqsUpTo(Rules, MaxRules)}

\* the InlinePermissions blocks explored
InlineBlocks ==
    [network : AllowOf(NetworkRules), storage : AllowOf(StorageRules),
     environment : AllowOf(EnvironmentRules),
     resources : {None} \cup {Some(r) : r \in ResourceLimits}]

\* InlinePermissions::validate: TRUE when it returns Ok
InlinePermissions_validate(p) ==
    /\ ~(p.network = None /\ p.storage = None /\ p.environment = None /\ p.resources = None)
    /\ p.network # None =>
        /\ p.network[1].allow # <<>>
        /\ \A i \in DOMAIN p.network[1].allow : p.network[1].allow[i].host # <<>>
    /\ p.storage # None =>
        /\ p.storage[1].allow # <<>>
        /\ \A i \in DOMAIN p.storage[1].allow :
            /\ p.storage[1].allow[i].uri # <<>>
            /\ StartsWith(p.storage[1].allow[i].uri, FsScheme)
            /\ p.storage[1].allow[i].access # <<>>
    /\ p.environment # None =>
        /\ p.environment[1].allow # <<>>
        /\ \A i \in DOMAIN p.environment[1].allow : p.environment[1].allow[i].key # <<>>
        /\ \A i, j \in DOMAIN p.environment[1].allow :
            p.environment[1].allow[i].key = p.environment[1].allow[j].key => i = j

\* PolicyDocument::new(version, description): no permission class
PolicyDocument_new(version, description) ==
    [version |-> version, description |-> description,
     permissions |-> [network |-> None, storage |-> None, environment |-> None,
                      resources |-> None]]

\* AccessType::Read => PolicyAccessType::Read, AccessType::Write => PolicyAccessType::Write
PolicyAccessType(a) == IF a = "Read" THEN "read" ELSE "write"

\* `format!("Auto-generated policy for {}", component_name.unwrap_or("component"))`
Description(component_name) ==
    <<"f", "o", "r", " ">>
        \o (IF component_name = None THEN <<"c", "o", "m", "p">> ELSE component_name[1])

\* the three `if let Some(..) = &inline.<class>` blocks: network, storage and
\* environment are converted rule by rule; inline.resources is never read
NetworkOf(inline) ==
    IF inline.network = None THEN None
    ELSE Some([allow |-> Some([i \in DOMAIN inline.network[1].allow |->
                                  [host |-> inline.network[1].allow[i].host]]),
               deny |-> None])

StorageOf(inline) ==
    IF inline.storage = None THEN None
    ELSE Some([allow |-> Some([i \in DOMAIN inline.storage[1].allow |->
                  [uri |-> inline.storage[1].allow[i].uri,
                   access |-> [j \in DOMAIN inline.storage[1].allow[i].access |->
                                  PolicyAccessType(inline.storage[1].allow[i].access[j])]]]),
               deny |-> None])

EnvironmentOf(inline) ==
    IF inline.environment = None THEN None
    ELSE Some([allow |-> Some([i \in DOMAIN inline.environment[1].allow |->
                                  [key |-> inline.environment[1].allow[i].key]])])

\* the document before its validation
SynthesizedDocument(inline, component_name) ==
    [PolicyDocument_new(<<"1", ".", "0">>, Some(Description(component_name)))
        EXCEPT !.permissions.network = NetworkOf(inline),
               !.permissions.storage = StorageOf(inline),
               !.permissions.environment = EnvironmentOf(inline)]

\* the rules of an Option<PermissionList>'s allow list
Allowed(class) ==
    IF class = None THEN <<>> ELSE IF class[1].allow = None THEN <<>> ELSE class[1].allow[1]

\* PolicyDocument::validate: storage URIs start with fs:// and carry a
\* non-empty access set; environment keys are non-empty and unique
PolicyDocument_validate(policy) ==
    LET st == Allowed(policy.permissions.storage)
        env == Allowed(policy.permissions.environment)
    IN /\ \A i \in DOMAIN st : StartsWith(st[i].uri, FsScheme) /\ st[i].access # <<>>
       /\ \A i \in DOMAIN env : env[i].key # <<>>
       /\ \A i, j \in DOMAIN env : env[i].key = env[j].key => i = j

\* synthesize_policy_from_inline
synthesize_policy_from_inline(inline, component_name) ==
    LET policy == SynthesizedDocument(inline, component_name)
    IN IF PolicyDocument_validate(policy)
       THEN [kind |-> "Ok", policy |-> policy]
       ELSE [kind |-> "Err", policy |-> PolicyDocument_new(<<>>, None)]

\* YAML: a document is the set of its leaves, each one the key path of a
\* scalar (class, list, index in the list, field, index in the field's
\* sequence) and the scalar as it is written
Indicators == {"*", "&", "!", "%", "@", "#", "[", "]", "{", "}", ">", "|", "'"}
Digits == {"0", "1", "2", "3", "4", "5", "6", "7", "8", "9"}
Null == [style |-> "null", text |-> <<>>]
EmptySeq == [style |-> "empty", text |-> <<>>]

\* a string that would not read back as itself when written plain
MutNeedsQuote(s) == FALSE
NeedsQuote(s) ==
    \/ s = <<>>
    \/ s[1] \in Indicators
    \/ \A i \in DOMAIN s : s[i] \in Digits \cup {"."}
    \/ s \in {<<"n", "u", "l", "l">>, <<"~">>}

WriteScalar(s) == [style |-> IF NeedsQuote(s) THEN "quoted" ELSE "plain", text |-> s]

\* whether a scalar reads as a string, and the string it reads as
ReadsAsString(tok) ==
    \/ tok.style = "quoted"
    \/ tok.style = "plain" /\ tok.text # <<>> /\ tok.text[1] \notin Indicators

Leaf(class, list, idx, field, sub, tok) ==
    [class |-> class, list |-> list, idx |-> idx, field |-> field, sub |-> sub, tok |-> tok]

\* the leaves of one item of a list
ItemLeaves(class, list, i, item) ==
    IF class = "network" THEN {Leaf(class, list, i, "host", 0, WriteScalar(item.host))}
    ELSE IF class = "environment" THEN {Leaf(class, list, i, "key", 0, WriteScalar(item.key))}
    ELSE {Leaf(class, list, i, "uri", 0, WriteScalar(item.uri))}
         \cup (IF item.access = <<>> THEN {Leaf(class, list, i, "access", 0, EmptySeq)}
               ELSE {Leaf(class, list, i, "access", j, [style |-> "plain", text |-> <<item.access[j]>>]) :
                        j \in DOMAIN item.access})

\* the leaves of an Option<Vec<..>>
ListLeaves(class, list, opt) ==
    IF opt = None THEN {Leaf(class, list, 0, "", 0, Null)}
    ELSE IF opt[1] = <<>> THEN {Leaf(class, list, 0, "", 0, EmptySeq)}
    ELSE UNION {ItemLeaves(class, list, i, opt[1][i]) : i \in DOMAIN opt[1]}

\* the leaves of a permission class
ClassLeaves(class, opt) ==
    IF opt = None THEN {Leaf(class, "", 0, "", 0, Null)}
    ELSE ListLeaves(class, "allow", opt[1].allow)
         \cup (IF class = "environment" THEN {} ELSE ListLeaves(class, "deny", opt[1].deny))

\* serialize_policy_to_yaml: serde_yaml::to_string
serialize_policy_to_yaml(policy) ==
    {Leaf("version", "", 0, "", 0, WriteScalar(policy.version)),
     Leaf("description", "", 0, "", 0,
          IF policy.description = None THEN Null ELSE WriteScalar(policy.description[1]))}
    \cup ClassLeaves("network", policy.permissions.network)
    \cup ClassLeaves("storage", policy.permissions.storage)
    \cup ClassLeaves("environment", policy.permissions.environment)
    \cup {Leaf("resources", "", 0, "", 0, Null)}

\* the leaf of a key path
LeafAt(yaml, class, list, idx, field, sub) ==
    CHOOSE l \in yaml : /\ l.class = class /\ l.list = list /\ l.idx = idx
                        /\ l.field = field /\ l.sub = sub

HasLeaf(yaml, class, list, idx, field, sub) ==
    \E l \in yaml : /\ l.class = class /\ l.list = list /\ l.idx = idx
                    /\ l.field = field /\ l.sub = sub

\* the item read back at an index of a list
ItemAt(yaml, class, list, i) ==
    IF class = "network" THEN [host |-> LeafAt(yaml, class, list, i, "host", 0).tok.text]
    ELSE IF class = "environment" THEN [key |-> LeafAt(yaml, class, list, i, "key", 0).tok.text]
    ELSE [uri |-> LeafAt(yaml, class, list, i, "uri", 0).tok.text,
          access |-> IF HasLeaf(yaml, class, list, i, "access", 0) THEN <<>>
                     ELSE [j \in {l.sub : l \in {m \in yaml : /\ m.class = class /\ m.list = list
                                                              /\ m.idx = i /\ m.field = "access"}} |->
                              LeafAt(yaml, class, list, i, "access", j).tok.text[1]]]

\* an Option<Vec<..>> read back
ListAt(yaml, class, list) ==
    IF HasLeaf(yaml, class, list, 0, "", 0)
    THEN (IF LeafAt(yaml, class, list, 0, "", 0).tok = Null THEN None ELSE Some(<<>>))
    ELSE Some([i \in {l.idx : l \in {m \in yaml : m.class = class /\ m.list = list}} |->
                  ItemAt(yaml, class, list, i)])

\* a permission class read back
ClassAt(yaml, class) ==
    IF HasLeaf(yaml, class, "", 0, "", 0) THEN None
    ELSE IF class = "environment" THEN Some([allow |-> ListAt(yaml, class, "allow")])
    ELSE Some([allow |-> ListAt(yaml, class, "allow"), deny |-> ListAt(yaml, class, "deny")])

\* serde_yaml::from_str::<PolicyDocument>: an error when a string scalar does
\* not read as a string, else the document
from_yaml(yaml) ==
    IF \E l \in yaml : l.tok.style \in {"plain", "quoted"} /\ l.field # "access"
                       /\ ~ReadsAsString(l.tok)
    THEN [kind |-> "Err", policy |-> PolicyDocument_new(<<>>, None)]
    ELSE [kind |-> "Ok",
          policy |-> [version |-> LeafAt(yaml, "version", "", 0, "", 0).tok.text,
                      description |->
                          IF LeafAt(yaml, "description", "", 0, "", 0).tok = Null THEN None
                          ELSE Some(LeafAt(yaml, "description", "", 0, "", 0).tok.text),
                      permissions |-> [network |-> ClassAt(yaml, "network"),
                                       storage |-> ClassAt(yaml, "storage"),
                                       environment |-> ClassAt(yaml, "environment"),
                                       resources |-> None]]]

NoResult == [kind |-> "none", policy |-> PolicyDocument_new(<<>>, None)]

SynInit ==
    /\ syn_pc = "start"
    /\ syn_inline \in InlineBlocks
    /\ syn_name \in ComponentNames
    /\ syn_policy = NoResult
    /\ syn_yaml = {}
    /\ syn_parsed = [kind |-> "none", policy |-> PolicyDocument_new(<<>>, None), valid |-> FALSE]
    /\ syn_again = NoResult

\* synthesize_policy_yaml, first half: the document is synthesized
Synthesize ==
    /\ syn_pc = "start"
    /\ syn_policy' = synthesize_policy_from_inline(syn_inline, syn_name)
    /\ syn_pc' = IF syn_policy'.kind = "Ok" THEN "synthesized" ELSE "failed"
    /\ UNCHANGED <<syn_inline, syn_name, syn_yaml, syn_parsed, syn_again>>
    /\ UNCHANGED <<coreVars, mfVars, rmVars, ltVars, lateVars>>

\* synthesize_policy_yaml, second half: the document is serialized
Serialize ==
    /\ syn_pc = "synthesized"
    /\ syn_yaml' = serialize_policy_to_yaml(syn_policy.policy)
    /\ syn_pc' = "serialized"
    /\ UNCHANGED <<syn_inline, syn_name, syn_policy, syn_parsed, syn_again>>
    /\ UNCHANGED <<coreVars, mfVars, rmVars, ltVars, lateVars>>

\* the staged policy is read back and validated
ParseBack ==
    /\ syn_pc = "serialized"
    /\ LET parsed == from_yaml(syn_yaml)
       IN syn_parsed' = [kind |-> parsed.kind, policy |-> parsed.policy,
                         valid |-> parsed.kind = "Ok" /\ PolicyDocument_validate(parsed.policy)]
    /\ syn_pc' = "parsed"
    /\ UNCHANGED <<syn_inline, syn_name, syn_policy, syn_yaml, syn_again>>
    /\ UNCHANGED <<coreVars, mfVars, rmVars, ltVars, lateVars>>

\* the same component is synthesized once more
Resynthesize ==
    /\ syn_pc = "parsed"
    /\ syn_again' = synthesize_policy_from_inline(syn_inline, syn_name)
    /\ syn_pc' = "done"
    /\ UNCHANGED <<syn_inline, syn_name, syn_policy, syn_yaml, syn_parsed>>
    /\ UNCHANGED <<coreVars, mfVars, rmVars, ltVars, lateVars>>

SynthesisNext ==
    \/ Synthesize
    \/ Serialize
    \/ ParseBack
    \/ Resynthesize

\* the rules a manifest declares for a class
Declared(class) == IF class = None THEN <<>> ELSE class[1].allow

\* C21 as stated: the synthesized policy contains each class the manifest
\* declares (network, storage, environment, resources) with the manifest's
\* entries in the same order, no class the manifest does not declare, version
\* "1.0" and a description.
C21_AsStated ==
    syn_policy.kind = "Ok" =>
        LET perms == syn_policy.policy.permissions
        IN /\ syn_policy.policy.version = <<"1", ".", "0">>
           /\ syn_policy.policy.description # None
           /\ (perms.network # None) <=> (syn_inline.network # None)
           /\ (perms.storage # None) <=> (syn_inline.storage # None)
           /\ (perms.environment # None) <=> (syn_inline.environment # None)
           /\ (perms.resources # None) <=> (syn_inline.resources # None)
           /\ [i \in DOMAIN Allowed(perms.network) |-> Allowed(perms.network)[i].host]
                 = [i \in DOMAIN Declared(syn_inline.network) |-> Declared(syn_inline.network)[i].host]
           /\ [i \in DOMAIN Allowed(perms.storage) |-> Allowed(perms.storage)[i].uri]
                 = [i \in DOMAIN Declared(syn_inline.storage) |-> Declared(syn_inline.storage)[i].uri]
           /\ [i \in DOMAIN Allowed(perms.environment) |-> Allowed(perms.environment)[i].key]
                 = [i \in DOMAIN Declared(syn_inline.environment) |->
                       Declared(syn_inline.environment)[i].key]

HookIdle ==
    /\ server = "mcp"
    /\ nhooks = 0
    /\ hpc = "idle"
    /\ hidx = 0
    /\ tool_ctx = from_params
    /\ result_ctx = None
    /\ response = [kind |-> "none"]
    /\ trace = <<>>
    /\ audit = 0
    /\ entries = <<>>

StorIdle ==
    /\ disk = [i \in Ids |-> EmptyQuartet]
    /\ max_concurrent_downloads = 1
    /\ permits = SemaphorePermits(1)
    /\ call = [c \in Calls |-> IdleCall]
    /\ committed = [i \in Ids |-> EmptyQuartet]
    /\ interrupted = None

ProvIdle ==
    /\ manifest = <<>>
    /\ pidx = 1
    /\ ppc = "none"
    /\ staged = {}
    /\ registered = [i \in Ids |-> None]
    /\ load = NoLoad
    /\ errors = <<>>
    /\ last_failed = None
    /\ attempts = <<>>
    /\ failures = {}
    /\ prov_result = None
    /\ secrets_store = [i \in Ids |-> {}]
    /\ steps = <<>>

RegIdle == RegInit

ServeIdle ==
    /\ peer = None
    /\ requests = [r \in Requests |-> IdleRequest]
    /\ stores = <<>>
    /\ loader = [id |-> 0, step |-> 1]
    /\ tasks = {}
    /\ received = {}
    /\ skipped = {}
    /\ quiet = {}
    /\ notified = {}
    /\ listed = None

CxIdle ==
    /\ cx_pc = "none"
    /\ cx_n = 0
    /\ cx_idx = 0
    /\ cx_params = [name |-> "tool", arguments |-> None, copied |-> FALSE]
    /\ cx_ctx = cx_from_params(cx_params)
    /\ cx_forwarded = None
    /\ cx_result = None
    /\ cx_mut = FALSE
    /\ cx_written = {}
    /\ cx_left = NoMeta
    /\ cx_seen = <<>>
    /\ cx_tool_name = None
    /\ cx_given = <<>>

StampIdle ==
    /\ file = [exists |-> FALSE, content |-> "b", mtime |-> 0]
    /\ clock = 0
    /\ stamp = None
    /\ stamped = None
    /\ modified = FALSE
    /\ validated = None

HexDigits == Digits \cup {"a", "b", "c", "d", "e", "f", "A", "B", "C", "D", "E", "F"}

Sha256Prefix == <<"s", "h", "a", "2", "5", "6", ":">>

\* `["file://", "oci://", "https://", "http://"]`
MutValidSchemes ==
    {<<"f", "i", "l", "e", ":", "/", "/">>, <<"o", "c", "i", ":", "/", "/">>,
     <<"h", "t", "t", "p", "s", ":", "/", "/">>, <<"h", "t", "t", "p", ":", "/", "/">>,
     <<"f", "t", "p", ":", "/", "/">>}
ValidSchemes ==
    {<<"f", "i", "l", "e", ":", "/", "/">>, <<"o", "c", "i", ":", "/", "/">>,
     <<"h", "t", "t", "p", "s", ":", "/", "/">>, <<"h", "t", "t", "p", ":", "/", "/">>}

\* component URIs of a manifest: one of each accepted scheme and an ftp:// one
ManifestUris ==
    {<<"f", "i", "l", "e", ":", "/", "/", "a">>, <<"o", "c", "i", ":", "/", "/", "a">>,
     <<"h", "t", "t", "p", "s", ":", "/", "/", "a">>, <<"h", "t", "t", "p", ":", "/", "/", "a">>,
     <<"f", "t", "p", ":", "/", "/", "a">>}

\* digests of a manifest: a well-formed one, one with another prefix, one of
\* 63 characters and one with a character that is no hex digit
ManifestDigests ==
    {Sha256Prefix \o [i \in 1..64 |-> "a"],
     <<"m", "d", "5", ":">> \o [i \in 1..64 |-> "a"],
     Sha256Prefix \o [i \in 1..63 |-> "a"],
     Sha256Prefix \o [i \in 1..64 |-> IF i = 64 THEN "g" ELSE "A"]}

NoClass == [network |-> None, storage |-> None, environment |-> None, resources |-> None]

\* permission blocks of a manifest: no class, a network rule, a storage rule
\* without the fs:// scheme, a repeated environment key, resources alone
ManifestBlocks ==
    {NoClass,
     [NoClass EXCEPT !.network = Some([allow |-> <<[host |-> <<"a", ".", "i", "o">>]>>])],
     [NoClass EXCEPT !.storage = Some([allow |-> <<[uri |-> <<"/", "t">>, access |-> <<"Read">>]>>])],
     [NoClass EXCEPT !.environment =
         Some([allow |-> <<[key |-> <<"K", "1">>, value_from |-> None],
                           [key |-> <<"K", "1">>, value_from |-> None]>>])],
     [NoClass EXCEPT !.resources = Some([memory_bytes |-> Some(64), cpu_time_ms |-> None])]}

\* the ComponentDeclarations explored: every block without a digest, and the
\* network block with every digest
ComponentDeclarations ==
    {[uri |-> u, digest |-> None, permissions |-> b] : u \in ManifestUris, b \in ManifestBlocks}
    \cup {[uri |-> u, digest |-> Some(d),
           permissions |-> [NoClass EXCEPT !.network = Some([allow |-> <<[host |-> <<"a", ".", "i", "o">>]>>])]] :
             u \in ManifestUris, d \in ManifestDigests}

ProvisioningManifests ==
    [version : {1, 2},
     components : UNION {[1..n -> ComponentDeclarations] : n \in 0..MaxComponents}]

ValidationOk == [kind |-> "Ok", reason |-> "", index |-> 0]
ValidationErr(reason, index) == [kind |-> "Err", reason |-> reason, index |-> index]

\* ComponentDeclaration::validate: the reason of its first `bail!`, "" for Ok
ComponentDeclaration_validate(c) ==
    IF c.uri = <<>> THEN "Component URI cannot be empty"
    ELSE IF ~\E scheme \in ValidSchemes : StartsWith(c.uri, scheme)
    THEN "Component URI must start with one of"
    ELSE IF c.digest # None /\ ~StartsWith(c.digest[1], Sha256Prefix)
    THEN "Digest must be in format 'sha256:<hex>'"
    ELSE IF c.digest # None /\ Len(SubSeq(c.digest[1], 8, Len(c.digest[1]))) # 64
    THEN "SHA-256 digest must be 64 hex characters"
    ELSE IF c.digest # None /\ \E i \in 8..Len(c.digest[1]) : c.digest[1][i] \notin HexDigits
    THEN "SHA-256 digest must contain only hex characters"
    ELSE IF ~InlinePermissions_validate(c.permissions)
    THEN "Invalid permissions configuration"
    ELSE ""

\* ProvisioningManifest::validate
ProvisioningManifest_validate(m) ==
    IF m.version # 1 THEN ValidationErr("Unsupported manifest version", 0)
    ELSE IF m.components = <<>>
    THEN ValidationErr("Manifest must declare at least one component", 0)
    ELSE IF \E i, j \in DOMAIN m.components : i < j /\ m.components[i].uri = m.components[j].uri
    THEN ValidationErr("Duplicate component URIs found", 0)
    ELSE IF \E i \in DOMAIN m.components : ComponentDeclaration_validate(m.components[i]) # ""
    THEN LET idx == CHOOSE i \in DOMAIN m.components :
                        /\ ComponentDeclaration_validate(m.components[i]) # ""
                        /\ \A j \in 1..(i - 1) : ComponentDeclaration_validate(m.components[j]) = ""
         IN ValidationErr(ComponentDeclaration_validate(m.components[idx]), idx)
    ELSE ValidationOk

MfInit ==
    /\ mf \in ProvisioningManifests
    /\ mf_result = None

\* the manifest read from its file is validated
ValidateManifest ==
    /\ mf_result = None
    /\ mf_result' = Some(ProvisioningManifest_validate(mf))
    /\ UNCHANGED mf
    /\ UNCHANGED <<coreVars, synVars, rmVars, ltVars, lateVars>>

ManifestNext == ValidateManifest

\* the rules of the manifest format a digest breaks
BadDigest(d) ==
    \/ Len(d) # 71
    \/ SubSeq(d, 1, 7) # Sha256Prefix
    \/ \E i \in 8..71 : d[i] \notin HexDigits

\* whether a manifest breaks at least one rule of the manifest format
BreaksARule(m) ==
    \/ m.version # 1
    \/ Len(m.components) = 0
    \/ \E i, j \in DOMAIN m.components : i # j /\ m.components[i].uri = m.components[j].uri
    \/ \E i \in DOMAIN m.components :
        LET c == m.components[i]
        IN \/ \A scheme \in {<<"f", "i", "l", "e", ":", "/", "/">>, <<"o", "c", "i", ":", "/", "/">>,
                             <<"h", "t", "t", "p", "s", ":", "/", "/">>,
                             <<"h", "t", "t", "p", ":", "/", "/">>} : ~StartsWith(c.uri, scheme)
           \/ c.digest # None /\ BadDigest(c.digest[1])
           \/ c.permissions = NoClass
           \/ \E k \in DOMAIN Declared(c.permissions.storage) :
                ~StartsWith(Declared(c.permissions.storage)[k].uri, <<"f", "s", ":", "/", "/">>)
           \/ \E k, l \in DOMAIN Declared(c.permissions.environment) :
                /\ k # l
                /\ Declared(c.permissions.environment)[k].key = Declared(c.permissions.environment)[l].key

\* C23: validate returns an error for every manifest that breaks at least
\* one rule: version 1, at least one component, distinct URIs, an accepted
\* scheme, a digest of the form sha256:<64 hex>, at least one permission
\* class, fs:// storage URIs, unique environment keys per component.
C23_InvalidRejected ==
    (mf_result # None /\ BreaksARule(mf)) => mf_result[1].kind = "Err"

\* a manifest of version 1 with two components of distinct accepted URIs,
\* whose only flaw is a digest with a character that is no hex digit, was
\* rejected
C23_Witness ==
    /\ mf_result # None
    /\ mf.version = 1
    /\ Len(mf.components) = 2
    /\ mf_result[1].reason = "SHA-256 digest must contain only hex characters"
    /\ mf_result[1].index = 2

(***************************************************************************)
(* Component storage: repeated remove_component_artifacts                  *)
(***************************************************************************)
RmInit ==
    /\ rm_dir \in [Files -> {0, 1}]
    /\ rm_pc = "idle"
    /\ rm_step = 0
    /\ rm_results = <<>>

\* remove_component_artifacts(id) is called once more
RemoveCall ==
    /\ rm_pc = "idle"
    /\ Len(rm_results) < MaxRemovals
    /\ rm_pc' = "remove"
    /\ rm_step' = 1
    /\ UNCHANGED <<rm_dir, rm_results>>
    /\ UNCHANGED <<coreVars, synVars, mfVars, ltVars, lateVars>>

\* one `self.remove_if_exists(..).await?`, and the return after the last one
RemoveStep ==
    /\ rm_pc = "remove"
    /\ LET f == RemoveOrder[rm_step]
           last == rm_step = Len(RemoveOrder)
       IN \E ok \in RemoveOutcomes(rm_dir, f) :
           IF ok
           THEN /\ rm_dir' = remove_if_exists(rm_dir, f)
                /\ rm_pc' = IF last THEN "idle" ELSE "remove"
                /\ rm_step' = IF last THEN 0 ELSE rm_step + 1
                /\ rm_results' = IF last
                                 THEN Append(rm_results, [kind |-> "Ok", dir |-> rm_dir', missing |-> rm_dir[f] = 0])
                                 ELSE rm_results
           ELSE /\ rm_dir' = rm_dir
                /\ rm_pc' = "idle"
                /\ rm_step' = 0
                /\ rm_results' = Append(rm_results, [kind |-> "Err", dir |-> rm_dir, missing |-> rm_dir[f] = 0])
    /\ UNCHANGED <<coreVars, synVars, mfVars, ltVars, lateVars>>

RemovalNext ==
    \/ RemoveCall
    \/ RemoveStep

\* C28: remove_component_artifacts does not fail on a file that is already
\* absent, and it is idempotent: a call that follows one that returned Ok
\* returns Ok and leaves the directory as the first call left it.
C28_Idempotent ==
    /\ \A i \in DOMAIN rm_results : rm_results[i].kind = "Err" => ~rm_results[i].missing
    /\ \A i \in DOMAIN rm_results :
        (i > 1 /\ rm_results[i - 1].kind = "Ok") =>
            /\ rm_results[i].kind = "Ok"
            /\ rm_results[i].dir = rm_results[i - 1].dir

\* some files of the id, among them its policy, existed; the first call
\* returned Ok and so did a second one
C28_Witness ==
    /\ Len(rm_results) >= 2
    /\ rm_results[1].kind = "Ok"
    /\ rm_results[2].kind = "Ok"
    /\ rm_dir["policy"] = 1

(***************************************************************************)
(* tools/list through the hooks                                            *)
(***************************************************************************)
ListedNames == {"public_tool", "internal_debug", "another_public"}

\* a Tool: its name and its description
Tool(name) == [name |-> name, description |-> "plain"]

\* what handle_tools_list may return: registry snapshots of up to three tools
Snapshots ==
    {<<>>, <<Tool("public_tool")>>,
     <<Tool("public_tool"), Tool("internal_debug"), Tool("another_public")>>,
     <<Tool("internal_debug"), Tool("public_tool")>>}

\* outcomes of handle_tools_list followed by serde_json::from_value
ListOutcomes == {"ok", "unparseable", "err"}

\* what a hook's on_list_tools does with the list: nothing, `retain` all but
\* one name, or annotate every tool
ListOps ==
    {[kind |-> "noop", name |-> ""], [kind |-> "annotate", name |-> ""]}
    \cup {[kind |-> "retain", name |-> t] : t \in ListedNames}

\* Vec::retain(|t| t.name != name)
RECURSIVE Retain(_, _)
Retain(tools, name) ==
    IF tools = <<>> THEN <<>>
    ELSE IF tools[1].name = name THEN Retain(Tail(tools), name)
    ELSE <<tools[1]>> \o Retain(Tail(tools), name)

\* the list after a hook's on_list_tools(&mut tools)
ApplyListOp(tools, op) ==
    IF op.kind = "retain" THEN Retain(tools, op.name)
    ELSE IF op.kind = "annotate"
    THEN [i \in DOMAIN tools |-> [tools[i] EXCEPT !.description = "annotated"]]
    ELSE tools

\* `for middleware in &self.middlewares`: the k-th hook visited of a stack of n
MutListVisit(n, k) == n + 1 - k
ListVisit(n, k) == k

LtInit ==
    /\ lt_pc = "idle"
    /\ lt_n \in 0..MaxHooks
    /\ lt_idx = 0
    /\ lt_snapshot = <<>>
    /\ lt_tools = <<>>
    /\ lt_log = <<>>
    /\ lt_response = None

\* list_tools is called: the peer of the request is stored if none is
ListToolsStart ==
    /\ lt_pc = "idle"
    /\ peer' = StoredPeer(peer, "peerA")
    /\ stores' = Append(stores, "peerA")
    /\ lt_pc' = "list"
    /\ UNCHANGED <<lt_n, lt_idx, lt_snapshot, lt_tools, lt_log, lt_response>>
    /\ UNCHANGED <<requests, loader, tasks, received, skipped, quiet, notified, listed>>
    /\ UNCHANGED <<hookVars, storVars, provVars, regVars, cxVars, stampVars, synVars, mfVars, rmVars, lateVars>>

\* handle_tools_list and the parsing of its value into a ListToolsResult
HandleToolsList ==
    /\ lt_pc = "list"
    /\ \E outcome \in ListOutcomes, snapshot \in Snapshots :
        IF outcome = "ok"
        THEN /\ lt_snapshot' = snapshot
             /\ lt_tools' = snapshot
             /\ lt_pc' = "hooks"
             /\ UNCHANGED lt_response
        ELSE /\ lt_response' = Some([kind |-> "Err", tools |-> <<>>])
             /\ lt_pc' = "done"
             /\ UNCHANGED <<lt_snapshot, lt_tools>>
    /\ UNCHANGED <<lt_n, lt_idx, lt_log>>
    /\ UNCHANGED <<coreVars, synVars, mfVars, rmVars, lateVars>>

\* MiddlewareStack::on_list_tools: the next hook is given the list
OnListTools ==
    /\ lt_pc = "hooks"
    /\ lt_idx < lt_n
    /\ \E op \in ListOps :
        /\ lt_log' = Append(lt_log, [hook |-> ListVisit(lt_n, lt_idx + 1), seen |-> lt_tools, op |-> op])
        /\ lt_tools' = ApplyListOp(lt_tools, op)
    /\ lt_idx' = lt_idx + 1
    /\ UNCHANGED <<lt_pc, lt_n, lt_snapshot, lt_response>>
    /\ UNCHANGED <<coreVars, synVars, mfVars, rmVars, lateVars>>

\* `Ok(list_result)` after the last hook
ListToolsReturn ==
    /\ lt_pc = "hooks"
    /\ lt_idx = lt_n
    /\ lt_response' = Some([kind |-> "Ok", tools |-> lt_tools])
    /\ lt_pc' = "done"
    /\ UNCHANGED <<lt_n, lt_idx, lt_snapshot, lt_tools, lt_log>>
    /\ UNCHANGED <<coreVars, synVars, mfVars, rmVars, lateVars>>

ListNext ==
    \/ ListToolsStart
    \/ HandleToolsList
    \/ OnListTools
    \/ ListToolsReturn

\* the names of a tool list
NamesOf(tools) == {tools[i].name : i \in DOMAIN tools}

\* the hooks H1..Hn applied in this order to the snapshot
RECURSIVE ThroughHooks(_, _, _)
ThroughHooks(tools, ops, k) ==
    IF k = 0 THEN tools ELSE ApplyListOp(ThroughHooks(tools, ops, k - 1), ops[k])

\* the hook of insertion index h in the log
LogOf(h) == CHOOSE i \in DOMAIN lt_log : lt_log[i].hook = h

ArgKeys == {"arg1", "arg2"}

ArgValues == {1, 2}

\* a serde_json::Map: a key is absent (0) or holds a value
ArgMaps == [ArgKeys -> {0} \cup ArgValues]

\* what a hook may do with the arguments of the context:
\*   read     arguments()
\*   touch    arguments_mut(), leaving the value as it is
\*   insert   if let Some(args) = arguments_mut() { args.insert(key, value) }
\*   remove   if let Some(args) = arguments_mut() { args.remove(key) }
\*   clear    *arguments_mut() = None
ArgumentOps ==
    {[op |-> o, key |-> "arg1", value |-> 0] : o \in {"read", "touch", "clear"}}
        \cup {[op |-> "insert", key |-> k, value |-> v] : k \in ArgKeys, v \in ArgValues}
        \cup {[op |-> "remove", key |-> k, value |-> 0] : k \in ArgKeys}

\* ToolCallContext::arguments
arguments(c, params) ==
    IF c.arguments_modified THEN c.arguments ELSE params.arguments

\* what the hook writes through the &mut it was given
WriteThrough(a, o) ==
    CASE o.op = "insert" -> IF a = None THEN a ELSE Some([a[1] EXCEPT ![o.key] = o.value])
      [] o.op = "remove" -> IF a = None THEN a ELSE Some([a[1] EXCEPT ![o.key] = 0])
      [] o.op = "clear" -> None
      [] OTHER -> a

CowInit ==
    /\ cow_params \in {[arguments |-> a] : a \in {None} \cup {Some(m) : m \in ArgMaps}}
    /\ cow_request = cow_params.arguments
    /\ cow_ctx = [arguments |-> None, arguments_modified |-> FALSE]
    /\ cow_ops = <<>>
    /\ cow_returned = <<>>

\* one arguments() call
ReadArguments ==
    /\ Len(cow_ops) < MaxOps
    /\ cow_ops' = Append(cow_ops, [op |-> "read", key |-> "arg1", value |-> 0])
    /\ cow_returned' = Append(cow_returned, arguments(cow_ctx, cow_params))
    /\ UNCHANGED <<cow_params, cow_request, cow_ctx>>
    /\ UNCHANGED notCowVars

\* one arguments_mut() call and what the hook does with the reference
MutateArguments ==
    /\ Len(cow_ops) < MaxOps
    /\ \E o \in ArgumentOps :
        /\ o.op # "read"
        /\ LET c == arguments_mut(cow_ctx, cow_params)
           IN  /\ cow_returned' = Append(cow_returned, c.arguments)
               /\ cow_ctx' = [c EXCEPT !.arguments = WriteThrough(c.arguments, o)]
        /\ cow_ops' = Append(cow_ops, o)
    /\ UNCHANGED <<cow_params, cow_request>>
    /\ UNCHANGED notCowVars

CowNext ==
    \/ ReadArguments
    \/ MutateArguments

(***************************************************************************)
(* ToolCallContext: properties of the arguments                            *)
(***************************************************************************)
\* the calls among the first k that were arguments_mut()
MutCalls(k) == {i \in 1..k : cow_ops[i].op # "read"}

\* the request's arguments with the mutations of the first k calls applied
\* in order
RECURSIVE WorkingCopy(_)
WorkingCopy(k) ==
    IF k = 0 THEN cow_request
    ELSE WriteThrough(WorkingCopy(k - 1), cow_ops[k])

\* C32: the first arguments_mut() copies the original arguments and sets
\* the modified flag; the flag never resets; every later arguments_mut()
\* and arguments() returns the working copy with all earlier mutations
\* kept; the original request arguments are never changed.
C32_CopyOnWrite ==
    /\ cow_ctx.arguments_modified = (MutCalls(Len(cow_ops)) # {})
    /\ \A k \in DOMAIN cow_ops : cow_returned[k] = WorkingCopy(k - 1)
    /\ cow_ctx.arguments_modified => cow_ctx.arguments = WorkingCopy(Len(cow_ops))
    /\ cow_params.arguments = cow_request

\* two mutations changed the copy, a later call returned the copy with
\* both, and the copy differs from the request's arguments
C32_Witness ==
    /\ Len(cow_ops) >= 3
    /\ cow_ops[1].op = "insert"
    /\ cow_ops[2].op = "remove"
    /\ cow_returned[3] # cow_request
    /\ cow_returned[3] # cow_returned[2]
    /\ cow_returned[2] # cow_request

(***************************************************************************)
(* The hook-enabled McpServer next to the hook-less McpServer              *)
(***************************************************************************)
\* the hooks the hook-enabled server is built with: NoOpHooks, or a
\* MiddlewareStack::new() that no middleware was pushed to
HookSets == {[kind |-> "noop", n |-> 0], [kind |-> "stack", n |-> 0]}

\* the default before_tool_call and after_tool_call of the ServerHooks
\* trait, which NoOpHooks inherits: `Ok(())`, the context left alone
MutDefaultBefore(c) == [c EXCEPT !.blocked = TRUE]
DefaultBefore(c) == c

DefaultAfter(r) == r

\* the default on_list_tools of the trait: `{}`
DefaultOnListTools(tools) == tools

\* hooks.before_tool_call(&mut tool_ctx): the context it leaves and whether
\* it returned Err
HooksBefore(hs, c) ==
    IF hs.kind = "noop" THEN [ctx |-> DefaultBefore(c), failed |-> FALSE]
    ELSE [ctx |-> c, failed |-> FALSE]

\* hooks.after_tool_call(&mut result_ctx)
HooksAfter(hs, r) ==
    IF hs.kind = "noop" THEN [result |-> DefaultAfter(r), failed |-> FALSE]
    ELSE [result |-> r, failed |-> FALSE]

\* hooks.on_list_tools(&mut list_result.tools)
HooksOnListTools(hs, tools) ==
    IF hs.kind = "noop" THEN DefaultOnListTools(tools)
    ELSE tools

\* the engine: what handle_tools_call returns for the request's parameters
\* and for any other parameters
Engines == [{"same", "other"} -> [out : EngineOutcomes, result : ToolResults]]

\* handle_tools_list followed by from_value
ListResults ==
    {[kind |-> "Ok", tools |-> s] : s \in Snapshots}
        \cup {[kind |-> "Err", err |-> [code |-> "parse_error", message |-> <<m, 0>>]] :
                m \in {"engine error", "Failed to parse result"}}

\* `match result` of the hook-less call_tool
PlainCallTool(params, engine) ==
    LET o == engine["same"]
    IN  CASE o.out = "err" ->
                ErrResponse([code |-> "parse_error", message |-> <<"engine error", 0>>])
          [] o.out = "unparseable" ->
                ErrResponse([code |-> "parse_error", message |-> <<"Failed to parse result", 0>>])
          [] OTHER -> OkResponse(o.result)

\* the hook-less list_tools
PlainListTools(list_result) == list_result

\* call_tool of the hook-enabled server
HookedCallTool(hs, params, engine) ==
    LET b == HooksBefore(hs, from_params)
        e == [code |-> "internal_error", message |-> <<"hook failed", 1>>]
        forwarded == into_params(cx_from_params(params), params)
        o == IF forwarded = params THEN engine["same"] ELSE engine["other"]
        a == HooksAfter(hs, o.result)
    IN  IF BeforeErrPropagates(b.failed) THEN BeforeErrResponse("mcp", e)
        ELSE IF IsBlocked(b.ctx) THEN OkResponse(blocked_result(BlockReason("mcp", b.ctx)))
        ELSE CASE o.out = "err" ->
                    ErrResponse([code |-> "parse_error", message |-> <<"engine error", 0>>])
               [] o.out = "unparseable" ->
                    ErrResponse([code |-> "parse_error", message |-> <<"Failed to parse result", 0>>])
               [] OTHER -> AfterPhaseResponse(a.result, a.failed, e)

\* list_tools of the hook-enabled server
HookedListTools(hs, list_result) ==
    IF list_result.kind = "Ok"
    THEN [kind |-> "Ok", tools |-> HooksOnListTools(hs, list_result.tools)]
    ELSE list_result

EqInit ==
    /\ eq_hooks \in HookSets
    /\ eq_peer = None
    /\ eq_plain_peer = None
    /\ eq_log = <<>>

\* one tools/call request served by both servers
EqCallTool ==
    /\ Len(eq_log) < MaxRequests
    /\ \E p \in Peers, params \in RequestParams, engine \in Engines :
        /\ eq_peer' = StoredPeer(eq_peer, p)
        /\ eq_plain_peer' = StoredPeer(eq_plain_peer, p)
        /\ eq_log' = Append(eq_log,
              [kind |-> "call", peer |-> p,
               hooked |-> HookedCallTool(eq_hooks, params, engine),
               plain |-> PlainCallTool(params, engine)])
    /\ UNCHANGED eq_hooks
    /\ UNCHANGED notEqVars

\* one tools/list request served by both servers
EqListTools ==
    /\ Len(eq_log) < MaxRequests
    /\ \E p \in Peers, list_result \in ListResults :
        /\ eq_peer' = StoredPeer(eq_peer, p)
        /\ eq_plain_peer' = StoredPeer(eq_plain_peer, p)
        /\ eq_log' = Append(eq_log,
              [kind |-> "list", peer |-> p,
               hooked |-> HookedListTools(eq_hooks, list_result),
               plain |-> PlainListTools(list_result)])
    /\ UNCHANGED eq_hooks
    /\ UNCHANGED notEqVars

EqNext ==
    \/ EqCallTool
    \/ EqListTools

\* C34: with NoOpHooks or an empty MiddlewareStack, call_tool and
\* list_tools of the hook-enabled McpServer return exactly what the
\* hook-less dispatcher returns, and store the peer handle the same way.
C34_NoHooksEquivalent ==
    /\ \A i \in DOMAIN eq_log : eq_log[i].hooked = eq_log[i].plain
    /\ eq_peer = eq_plain_peer

\* with an empty stack, a tools/list and a tools/call that returned a result were
\* served for two different peers
C34_Witness ==
    /\ eq_hooks.kind = "stack"
    /\ Len(eq_log) >= 2
    /\ eq_log[1].kind = "list" /\ eq_log[1].hooked.kind = "Ok" /\ eq_log[1].hooked.tools # <<>>
    /\ eq_log[2].kind = "call" /\ eq_log[2].hooked.kind = "Ok"
    /\ eq_log[1].peer # eq_log[2].peer
    /\ eq_peer = Some(eq_log[1].peer)

(***************************************************************************)
(* RateLimitMiddleware                                                     *)
(***************************************************************************)
\* now.duration_since(t): zero when t is later than now
duration_since(now, t) == IF now >= t THEN now - t ELSE 0

\* calls.retain(|t| now.duration_since(*t) < self.window)
RECURSIVE RetainRecent(_, _, _)
RetainRecent(stamps, now, window) ==
    IF stamps = <<>> THEN <<>>
    ELSE IF duration_since(now, stamps[1]) < window
         THEN <<stamps[1]>> \o RetainRecent(Tail(stamps), now, window)
         ELSE RetainRecent(Tail(stamps), now, window)

RlInit ==
    /\ rl_max_calls \in 1..2
    /\ rl_window \in 1..MaxTime
    /\ rl_clock = 0
    /\ rl_calls = <<>>
    /\ rl_lock = 0
    /\ rl_task = [c \in Calls |-> [pc |-> "idle", now |-> 0]]
    /\ rl_passed = {}
    /\ rl_blocked = {}

\* time passes
RlTick ==
    /\ rl_clock < MaxTime
    /\ rl_clock' = rl_clock + 1
    /\ UNCHANGED <<rl_max_calls, rl_window, rl_calls, rl_lock, rl_task, rl_passed, rl_blocked>>
    /\ UNCHANGED notRlVars

\* `let now = Instant::now();` and the task starts to wait for the lock
RlReadNow(c) ==
    /\ rl_task[c].pc = "idle"
    /\ rl_task' = [rl_task EXCEPT ![c] = [pc |-> "waiting", now |-> rl_clock]]
    /\ UNCHANGED <<rl_max_calls, rl_window, rl_clock, rl_calls, rl_lock, rl_passed, rl_blocked>>
    /\ UNCHANGED notRlVars

\* `self.calls.write().await` returns the guard
RlWrite(c) ==
    /\ rl_task[c].pc = "waiting"
    /\ rl_lock = 0
    /\ rl_lock' = c
    /\ rl_task' = [rl_task EXCEPT ![c].pc = "locked"]
    /\ UNCHANGED <<rl_max_calls, rl_window, rl_clock, rl_calls, rl_passed, rl_blocked>>
    /\ UNCHANGED notRlVars

\* retain, the comparison with max_calls, block or push, and the guard is
\* dropped on return
RlDecide(c) ==
    /\ rl_task[c].pc = "locked"
    /\ LET kept == RetainRecent(rl_calls, rl_task[c].now, rl_window)
       IN  IF Len(kept) >= rl_max_calls
           THEN /\ rl_calls' = kept
                /\ rl_blocked' = rl_blocked \cup {[call |-> c, at |-> rl_clock, counted |-> Len(kept)]}
                /\ rl_passed' = rl_passed
           ELSE /\ rl_calls' = Append(kept, rl_task[c].now)
                /\ rl_passed' = rl_passed \cup {[call |-> c, now |-> rl_task[c].now, at |-> rl_clock]}
                /\ rl_blocked' = rl_blocked
    /\ rl_lock' = 0
    /\ rl_task' = [rl_task EXCEPT ![c].pc = "done"]
    /\ UNCHANGED <<rl_max_calls, rl_window, rl_clock>>
    /\ UNCHANGED notRlVars

RateLimitNext ==
    \/ RlTick
    \/ \E c \in Calls : RlReadNow(c)
    \/ \E c \in Calls : RlWrite(c)
    \/ \E c \in Calls : RlDecide(c)

\* the calls that passed the hook unblocked at an instant in [t, t + span)
PassedWithin(t, span) == {p \in rl_passed : p.at >= t /\ p.at < t + span}

\* C36 as stated: under any interleaving of concurrent tool calls, at most
\* max_calls calls pass the before hook unblocked within any time span
\* shorter than window, and a blocked call is not counted against the limit.
C36_AsStated ==
    /\ \A t \in 0..MaxTime : Cardinality(PassedWithin(t, rl_window)) <= rl_max_calls
    /\ Len(rl_calls) <= Cardinality(rl_passed)
    /\ \A i \in DOMAIN rl_calls : \E p \in rl_passed : p.now = rl_calls[i]

(***************************************************************************)
(* Temporary policy file names: hash_string over URI strings               *)
(***************************************************************************)
\* bytes a URI string is made of here: '/', 'A', 'B', 'a'
UriBytes == {47, 65, 66, 97}

\* the URI strings of at most MaxUriLen bytes
UriStrings == UNION {[1..n -> UriBytes] : n \in 1..MaxUriLen}

\* a manifest of two components, each with any URI string
HsInit ==
    /\ hs_uris \in [1..2 -> UriStrings]
    /\ hs_staged = <<>>

\* synthesize_policy of the next component: its policy is written under
\* temp_<hash_string(uri)>.policy.yaml
HsSynthesize ==
    /\ Len(hs_staged) < Len(hs_uris)
    /\ hs_staged' = Append(hs_staged, TempPolicyName(hs_uris[Len(hs_staged) + 1]))
    /\ UNCHANGED hs_uris
    /\ UNCHANGED notHsVars

HashNext == HsSynthesize

\* C39 as stated: different URI strings have different hashes, so two
\* distinct URIs of one manifest are never staged under the same
\* temp_<hash>.policy.yaml file.
C39_AsStated ==
    \A i, j \in DOMAIN hs_staged :
        hs_uris[i] # hs_uris[j] =>
            /\ hash_string(hs_uris[i]) # hash_string(hs_uris[j])
            /\ hs_staged[i] # hs_staged[j]

SynIdle ==
    /\ syn_pc = "idle"
    /\ syn_inline = [network |-> None, storage |-> None, environment |-> None, resources |-> None]
    /\ syn_name = None
    /\ syn_policy = NoResult
    /\ syn_yaml = {}
    /\ syn_parsed = [kind |-> "none", policy |-> PolicyDocument_new(<<>>, None), valid |-> FALSE]
    /\ syn_again = NoResult

MfIdle ==
    /\ mf = [version |-> 1, components |-> <<>>]
    /\ mf_result = None

RmIdle ==
    /\ rm_dir = [f \in Files |-> 0]
    /\ rm_pc = "idle"
    /\ rm_step = 0
    /\ rm_results = <<>>

LtIdle ==
    /\ lt_pc = "off"
    /\ lt_n = 0
    /\ lt_idx = 0
    /\ lt_snapshot = <<>>
    /\ lt_tools = <<>>
    /\ lt_log = <<>>
    /\ lt_response = None

CowIdle ==
    /\ cow_params = [arguments |-> None]
    /\ cow_request = None
    /\ cow_ctx = [arguments |-> None, arguments_modified |-> FALSE]
    /\ cow_ops = <<>>
    /\ cow_returned = <<>>

EqIdle ==
    /\ eq_hooks = [kind |-> "noop", n |-> 0]
    /\ eq_peer = None
    /\ eq_plain_peer = None
    /\ eq_log = <<>>

RlIdle ==
    /\ rl_max_calls = 1
    /\ rl_window = 1
    /\ rl_clock = 0
    /\ rl_calls = <<>>
    /\ rl_lock = 0
    /\ rl_task = [c \in Calls |-> [pc |-> "off", now |-> 0]]
    /\ rl_passed = {}
    /\ rl_blocked = {}

HsIdle ==
    /\ hs_uris = <<>>
    /\ hs_staged = <<>>

LateIdle == CowIdle /\ EqIdle /\ RlIdle /\ HsIdle

MoreIdle == SynIdle /\ MfIdle /\ RmIdle /\ LtIdle /\ LateIdle

CoreIdle == HookIdle /\ StorIdle /\ ProvIdle /\ RegIdle /\ ServeIdle /\ CxIdle /\ StampIdle

EarlyIdle == CoreIdle /\ SynIdle /\ MfIdle /\ RmIdle /\ LtIdle

RestIdle == RegIdle /\ ServeIdle /\ CxIdle /\ StampIdle /\ MoreIdle

\* one tool call through the hook pipeline
Init == HookInit /\ StorIdle /\ ProvIdle /\ RestIdle

Next == HookNext

Spec == Init /\ [][Next]_vars

\* one tool call through a PolisServer chain that holds an AuditMiddleware
AuditInit ==
    /\ server = "polis"
    /\ nhooks \in 1..MaxHooks
    /\ audit \in 1..nhooks
    /\ entries = <<>>
    /\ hpc = "idle"
    /\ hidx = 0
    /\ tool_ctx = from_params
    /\ result_ctx = None
    /\ response = [kind |-> "none"]
    /\ trace = <<>>
    /\ StorIdle /\ ProvIdle /\ RestIdle

AuditSpec == AuditInit /\ [][Next]_vars

\* concurrent calls on clones of one ComponentStorage
StorageInit == StorInit /\ HookIdle /\ ProvIdle /\ RestIdle

StorageSpec == StorageInit /\ [][StorNext]_vars

\* concurrent installs, each step of which takes finitely long
PermitSpec == StorageInit /\ [][PermitNext]_vars /\ PermitFairness

\* concurrent loads and unloads through the lifecycle manager
LifecycleSpec == StorageInit /\ [][LifecycleNext]_vars

\* provisioning of one manifest, one component after the other
ProvisionInit ==
    /\ ProvInit
    /\ HookIdle
    /\ RestIdle
    /\ max_concurrent_downloads = 1
    /\ permits = SemaphorePermits(1)
    /\ call = [c \in Calls |-> IdleCall]
    /\ committed = [i \in Ids |-> EmptyQuartet]
    /\ interrupted = None

ProvisionSpec == ProvisionInit /\ [][ProvNext]_vars

\* loads, unloads and lookups on one registry
RegistryInit == RegInit /\ ServeIdle /\ CxIdle /\ StampIdle /\ HookIdle /\ StorIdle /\ ProvIdle /\ MoreIdle

RegistrySpec == RegistryInit /\ [][RegistryNext]_vars

\* the server with its background loader and concurrent client requests
ServeSpecInit == ServeInit /\ RegInit /\ CxIdle /\ StampIdle /\ HookIdle /\ StorIdle /\ ProvIdle /\ MoreIdle

ServeSpec == ServeSpecInit /\ [][ServeNext]_vars

\* one tool call whose hooks read and write the context
ContextInit == CxInit /\ RegIdle /\ ServeIdle /\ StampIdle /\ HookIdle /\ StorIdle /\ ProvIdle /\ MoreIdle

ContextSpec == ContextInit /\ [][ContextNext]_vars

\* one artifact, its stamps and the writes to it
StampSpecInit == StampInit /\ RegIdle /\ ServeIdle /\ CxIdle /\ HookIdle /\ StorIdle /\ ProvIdle /\ MoreIdle

StampSpec == StampSpecInit /\ [][StampNext]_vars

\* the policy of one component: synthesized, serialized and read back
SynthesisInit == SynInit /\ CoreIdle /\ MfIdle /\ RmIdle /\ LtIdle /\ LateIdle

SynthesisSpec == SynthesisInit /\ [][SynthesisNext]_vars

\* one manifest and its validation
ManifestInit == MfInit /\ CoreIdle /\ SynIdle /\ RmIdle /\ LtIdle /\ LateIdle

ManifestSpec == ManifestInit /\ [][ManifestNext]_vars

\* remove_component_artifacts called again and again for one id
RemovalInit == RmInit /\ CoreIdle /\ SynIdle /\ MfIdle /\ LtIdle /\ LateIdle

RemovalSpec == RemovalInit /\ [][RemovalNext]_vars

\* one tools/list request through the hooks
ListInit == LtInit /\ CoreIdle /\ SynIdle /\ MfIdle /\ RmIdle /\ LateIdle

ListSpec == ListInit /\ [][ListNext]_vars

\* one ToolCallContext and the calls hooks make on its arguments
ArgumentsInit == CowInit /\ EarlyIdle /\ EqIdle /\ RlIdle /\ HsIdle

ArgumentsSpec == ArgumentsInit /\ [][CowNext]_vars

\* the same requests served by the hook-enabled and the hook-less server
EquivalenceInit == EqInit /\ EarlyIdle /\ CowIdle /\ RlIdle /\ HsIdle

EquivalenceSpec == EquivalenceInit /\ [][EqNext]_vars

\* concurrent tool calls through one RateLimitMiddleware
RateLimitInit == RlInit /\ EarlyIdle /\ CowIdle /\ EqIdle /\ HsIdle

RateLimitSpec == RateLimitInit /\ [][RateLimitNext]_vars

\* the policies of the components of one manifest are staged one after the other
HashInit == HsInit /\ EarlyIdle /\ CowIdle /\ EqIdle /\ RlIdle

HashSpec == HashInit /\ [][HashNext]_vars

====
